---- MODULE Spec2Model ----
(***************************************************************************)
(* Session engine of the realtime ASR gateway: one WebSocketHandler (one   *)
(* connection), its VADManager / SileroVAD and its ASRSession.             *)
(*                                                                         *)
(* Conventions of the model                                                *)
(*   - item ids are positive integers handed out by next_item (uuid4 in    *)
(*     the code: every call yields an id never seen before); 0 stands for  *)
(*     None (current_item_id) and for "" (previous_item_id);               *)
(*   - an audio payload is the number of bytes its base64 text decodes to  *)
(*     (with what an Opus decoder makes of them), a decoded chunk is its   *)
(*     number of samples; the Silero network is opaque, so the speech      *)
(*     probability of every window it evaluates is an input (in percent:   *)
(*     0.5 is 50);                                                         *)
(*   - opuslib says whether the opuslib package can be imported in the     *)
(*     deployment; it does not change during a session;                    *)
(*   - the backend (init / feed / finalize) is opaque: whether a call      *)
(*     succeeds and the text it returns are inputs;                        *)
(*   - time.time() is the variable now, which only moves between handlers; *)
(*   - a text is a sequence of characters (small integers);                *)
(*   - websocket sends succeed while the connection is open: out is the    *)
(*     sequence of events the client has received;                         *)
(*   - manual_script is a history variable: how many messages of the       *)
(*     manual-mode client of tests/test_sdk_compatibility.py the inbound   *)
(*     traffic has followed so far, Absent once it left that script;       *)
(*   - fed_samples is a history variable: the number of samples handed to  *)
(*     ASRSession.append_audio so far;                                     *)
(*   - last_audio is the audio field of the last inbound message (NoAudio  *)
(*     when that message is no append);                                    *)
(*   - backend_failed is the set of the backend calls ("init", "feed",     *)
(*     "finalize") that raised while the last message was handled;         *)
(*   - last_turn_detection is session.turn_detection of the last inbound   *)
(*     message (NoTurnDetection when that message is no session.update);   *)
(*   - last_probs is the sequence of P(speech) that the network returned   *)
(*     for the windows of the last inbound message, recorded in the        *)
(*     sessions of SpecVad only;                                           *)
(*   - a language is the string the program holds, "" standing for None    *)
(*     as well.                                                            *)
(***************************************************************************)
EXTENDS Integers, Sequences, FiniteSets, TLC

VARIABLES
    vad_enabled, vad_threshold, vad_silence_ms, sample_rate,
    audio_buffer, total_samples, vad_manager, asr_session,
    current_item_id, previous_item_id, speech_active,
    last_commit_time, segment_start_time, finished,
    out, next_item, phase, now, msgs, last_msg, manual_script, fed_samples,
    audio_format, opuslib, last_audio, backend_failed, last_turn_detection,
    language, last_probs

vars == << vad_enabled, vad_threshold, vad_silence_ms, sample_rate,
           audio_buffer, total_samples, vad_manager, asr_session,
           current_item_id, previous_item_id, speech_active,
           last_commit_time, segment_start_time, finished,
           out, next_item, phase, now, msgs, last_msg, manual_script,
           fed_samples, audio_format, opuslib, last_audio,
           backend_failed, last_turn_detection, language, last_probs >>

(***************************************************************************)
(* Bounds of the model.                                                    *)
(***************************************************************************)
\* inbound messages handled on the connection
MaxMsgs == 4
\* cumulative samples appended on the connection
MaxSamples == 1536
\* last value of the clock
MaxTime == 3
\* seconds of audio in a continuous stream, and last value of its clock
MaxStreamSec == 6
MaxStreamTime == 6
\* inbound messages and cumulative samples of a session that changes its
\* sample rate
MaxRateMsgs == 7
MaxRateSamples == 1792
\* inbound messages of a session whose backend returns long texts, and the
\* length of the longest of these texts
MaxTextMsgs == 3
MaxTextLen == 34
\* inbound messages of a session that names its language
MaxLanguageMsgs == 3
\* inbound messages and samples of a session of SpecVad
MaxVadMsgs == 4
MaxVadSamples == 2560

(***************************************************************************)
(* Program constants.                                                      *)
(***************************************************************************)
\* AUTO_COMMIT_INTERVAL_SEC, read from the environment variable of that name
\* (60.0 when it is unset); set to 2 here, as in the auto-commit scenario of
\* the specification, in seconds of the clock now.
AUTO_COMMIT_INTERVAL_SEC == 2
DEFAULT_VAD_SILENCE_DURATION_MS == 400
\* turn_detection.get("threshold", 0.5), in percent
DEFAULT_THRESHOLD == 50
DEFAULT_SAMPLE_RATE == 16000

\* a key that the client's JSON object does not carry
Absent == -1

(***************************************************************************)
(* Strings.  A language or an audio format is the string the program       *)
(* handles; str.lower and str.isupper are tabulated for the strings of the *)
(* model that have an uppercase letter, all of them in first position.     *)
(***************************************************************************)
\* the strings of the model with an uppercase first letter, and their lower()
UpperToLower ==
    ( "Chinese" :> "chinese" @@ "Cantonese" :> "cantonese" @@
      "English" :> "english" @@ "Japanese" :> "japanese" @@
      "Korean" :> "korean" @@ "German" :> "german" @@
      "French" :> "french" @@ "Spanish" :> "spanish" @@
      "Portuguese" :> "portuguese" @@ "Arabic" :> "arabic" @@
      "Italian" :> "italian" @@ "Hindi" :> "hindi" @@
      "Indonesian" :> "indonesian" @@ "Thai" :> "thai" @@
      "Turkish" :> "turkish" @@ "Ukrainian" :> "ukrainian" @@
      "Vietnamese" :> "vietnamese" @@ "Czech" :> "czech" @@
      "Danish" :> "danish" @@ "Filipino" :> "filipino" @@
      "Finnish" :> "finnish" @@ "Icelandic" :> "icelandic" @@
      "Malay" :> "malay" @@ "Norwegian" :> "norwegian" @@
      "Polish" :> "polish" @@ "Swedish" :> "swedish" @@
      "Dutch" :> "dutch" @@ "Persian" :> "persian" @@
      "Greek" :> "greek" @@ "Romanian" :> "romanian" @@
      "Hungarian" :> "hungarian" @@ "Macedonian" :> "macedonian" @@
      "Russian" :> "russian" @@ "Klingon" :> "klingon" @@ "EN" :> "en" @@
      "PCM32" :> "pcm32" )

\* str.lower
Lower(f) == IF f \in DOMAIN UpperToLower THEN UpperToLower[f] ELSE f

\* language[0].isupper()
StartsUpper(f) == f \in DOMAIN UpperToLower

\* dict.get(key, default)
Get(map, key, default) == IF key \in DOMAIN map THEN map[key] ELSE default

(***************************************************************************)
(* Language codes: the inbound table of handlers/websocket_handler.py and  *)
(* the outbound table of ASRSession._detect_language_code.                 *)
(***************************************************************************)
\* None, and the empty string, of a language
NoLanguage == ""

\* LANGUAGE_CODE_MAP: ISO code -> name of the language for the backend
LANGUAGE_CODE_MAP ==
    ( "zh" :> "Chinese" @@ "yue" :> "Cantonese" @@ "en" :> "English" @@
      "ja" :> "Japanese" @@ "ko" :> "Korean" @@ "de" :> "German" @@
      "fr" :> "French" @@ "es" :> "Spanish" @@ "pt" :> "Portuguese" @@
      "ar" :> "Arabic" @@ "it" :> "Italian" @@ "hi" :> "Hindi" @@
      "id" :> "Indonesian" @@ "th" :> "Thai" @@ "tr" :> "Turkish" @@
      "uk" :> "Ukrainian" @@ "vi" :> "Vietnamese" @@ "cs" :> "Czech" @@
      "da" :> "Danish" @@ "fil" :> "Filipino" @@ "fi" :> "Finnish" @@
      "is" :> "Icelandic" @@ "ms" :> "Malay" @@ "no" :> "Norwegian" @@
      "pl" :> "Polish" @@ "sv" :> "Swedish" @@ "nl" :> "Dutch" @@
      "fa" :> "Persian" @@ "el" :> "Greek" @@ "ro" :> "Romanian" @@
      "hu" :> "Hungarian" @@ "mk" :> "Macedonian" @@ "ru" :> "Russian" )

\* lang_map of _detect_language_code: lowercase name -> ISO code
lang_map ==
    ( "chinese" :> "zh" @@ "english" :> "en" @@ "japanese" :> "ja" @@
      "korean" :> "ko" @@ "french" :> "fr" @@ "german" :> "de" @@
      "spanish" :> "es" @@ "russian" :> "ru" @@ "italian" :> "it" @@
      "portuguese" :> "pt" @@ "arabic" :> "ar" @@ "hindi" :> "hi" @@
      "indonesian" :> "id" @@ "thai" :> "th" @@ "turkish" :> "tr" @@
      "ukrainian" :> "uk" @@ "vietnamese" :> "vi" @@ "czech" :> "cs" @@
      "danish" :> "da" @@ "filipino" :> "fil" @@ "finnish" :> "fi" @@
      "icelandic" :> "is" @@ "malay" :> "ms" @@ "norwegian" :> "no" @@
      "polish" :> "pl" @@ "swedish" :> "sv" @@ "cantonese" :> "yue" )

\* normalize_language
normalize_language(lang) ==
    IF lang = NoLanguage THEN NoLanguage
    ELSE IF StartsUpper(lang) THEN lang
    ELSE IF Lower(lang) = "auto" THEN NoLanguage
    ELSE Get(LANGUAGE_CODE_MAP, Lower(lang), lang)

\* ASRSession._detect_language_code
DetectLanguageCode(lang) ==
    Get(lang_map, IF lang = NoLanguage THEN "" ELSE Lower(lang), "zh")

(***************************************************************************)
(* Inputs.                                                                 *)
(***************************************************************************)
\* session.turn_detection of a session.update: null, or an object whose
\* threshold / silence_duration_ms keys may be missing
TurnDetections ==
    { [null |-> TRUE,  threshold |-> Absent, silence_duration_ms |-> Absent],
      [null |-> FALSE, threshold |-> Absent, silence_duration_ms |-> 32],
      [null |-> FALSE, threshold |-> 60,     silence_duration_ms |-> Absent] }
\* session.sample_rate of a session.update
SampleRates == {Absent, 8000}
\* samples decoded from one append; 0 is the empty audio field
ChunkLens == {0, 256, 512}
\* the audio field of an append: empty says that the field is missing or the
\* empty string, b64 that it is valid base64, bytes is the number of bytes it
\* decodes to, opus the number of samples an Opus decoder yields from these
\* bytes (Absent when the decoder rejects them)
NoAudio == [ empty |-> TRUE, b64 |-> TRUE, bytes |-> 0, opus |-> Absent ]
Pcm16Frame(n) == [ empty |-> n = 0, b64 |-> TRUE, bytes |-> 2 * n, opus |-> Absent ]
\* session.input_audio_format of a session.update; Unset is the missing key
Unset == "unset"
AudioFormats == { Unset, "pcm16", "PCM32", "opus", "wav" }
\* audio fields of every kind: no audio, broken base64, a text that base64
\* decodes to no byte at all ("====", " "), 256 samples of int16 or 128 of
\* int32, a byte count that is no whole number of int32 samples, an odd byte
\* count, an Opus frame of 20 ms at 16 kHz and a corrupt Opus frame
Payloads ==
    { NoAudio,
      [ empty |-> FALSE, b64 |-> FALSE, bytes |-> 0,   opus |-> Absent ],
      [ empty |-> FALSE, b64 |-> TRUE,  bytes |-> 0,   opus |-> Absent ],
      [ empty |-> FALSE, b64 |-> TRUE,  bytes |-> 512, opus |-> Absent ],
      [ empty |-> FALSE, b64 |-> TRUE,  bytes |-> 514, opus |-> Absent ],
      [ empty |-> FALSE, b64 |-> TRUE,  bytes |-> 511, opus |-> Absent ],
      [ empty |-> FALSE, b64 |-> TRUE,  bytes |-> 40,  opus |-> 320 ],
      [ empty |-> FALSE, b64 |-> TRUE,  bytes |-> 41,  opus |-> Absent ] }
\* P(speech) the network can return for a window, in percent
SpeechProbs == {50, 60}
\* texts the backend can return
BackendTexts == { <<>>, <<1, 2>> }

\* outcome of ASRSession.initialize
InitOutcomes == {TRUE, FALSE}
\* outcome of a feed / finalize call of the backend: a new text, or an exception
\* the backend returns this text; it names the language once it has text
Heard(text) ==
    [ ok |-> TRUE, text |-> text,
      language |-> IF text = <<>> THEN NoLanguage ELSE "Chinese" ]
\* the call raises
Failure == [ ok |-> FALSE, text |-> <<>>, language |-> NoLanguage ]
CallOutcomes == { Heard(t) : t \in BackendTexts } \cup { Failure }

RECURSIVE ProbSeqs(_)
\* all sequences of k window probabilities
ProbSeqs(k) ==
    IF k = 0 THEN { <<>> }
    ELSE { Append(p, q) : p \in ProbSeqs(k - 1), q \in SpeechProbs }

(***************************************************************************)
(* utils/protocol.py: outbound events.  Every event is a record of the     *)
(* same shape; the fields an event type does not carry keep the values of  *)
(* BlankEvent.                                                             *)
(***************************************************************************)
NoTurnDetection == [null |-> TRUE, threshold |-> 0, silence_duration_ms |-> 0]

BlankEvent ==
    [ type |-> "", item_id |-> 0, previous_item_id |-> 0, audio_ms |-> 0,
      error_type |-> "", code |-> "", language |-> "", text |-> <<>>,
      stash |-> <<>>, transcript |-> <<>>, turn_detection |-> NoTurnDetection ]

create_session_created_event(td) ==
    [BlankEvent EXCEPT !.type = "session.created", !.turn_detection = td]

create_session_updated_event(td) ==
    [BlankEvent EXCEPT !.type = "session.updated", !.turn_detection = td]

create_error_event(error_type, code) ==
    [BlankEvent EXCEPT !.type = "error", !.error_type = error_type, !.code = code]

create_speech_started_event(audio_start_ms, item_id) ==
    [BlankEvent EXCEPT !.type = "input_audio_buffer.speech_started",
                       !.audio_ms = audio_start_ms, !.item_id = item_id]

create_speech_stopped_event(audio_end_ms, item_id) ==
    [BlankEvent EXCEPT !.type = "input_audio_buffer.speech_stopped",
                       !.audio_ms = audio_end_ms, !.item_id = item_id]

create_input_audio_buffer_committed_event(prev, item_id) ==
    [BlankEvent EXCEPT !.type = "input_audio_buffer.committed",
                       !.previous_item_id = prev, !.item_id = item_id]

create_conversation_item_created_event(item_id, prev) ==
    [BlankEvent EXCEPT !.type = "conversation.item.created",
                       !.previous_item_id = prev, !.item_id = item_id]

create_transcription_text_event(item_id, lang, text, stash) ==
    [BlankEvent EXCEPT !.type = "conversation.item.input_audio_transcription.text",
                       !.item_id = item_id, !.language = lang,
                       !.text = text, !.stash = stash]

create_transcription_completed_event(item_id, lang, transcript) ==
    [BlankEvent EXCEPT !.type = "conversation.item.input_audio_transcription.completed",
                       !.item_id = item_id, !.language = lang,
                       !.transcript = transcript]

create_session_finished_event ==
    [BlankEvent EXCEPT !.type = "session.finished"]

(***************************************************************************)
(* models/vad.py: SileroVAD and VADManager.  kind is "none" for            *)
(* vad_manager = None, "disabled" for VADManager(enabled=False) (vad is    *)
(* None) and "silero" for a manager that owns a SileroVAD.  buffer is the  *)
(* length of the leftover buffer.                                          *)
(***************************************************************************)
NoVadManager ==
    [ kind |-> "none", threshold |-> 0, silence_samples |-> 0, sample_rate |-> 0,
      window_size |-> 0, is_speaking |-> FALSE, speech_start_sample |-> 0,
      last_speech_sample |-> 0, silence_counter |-> 0, buffer |-> 0 ]

\* int(sample / sample_rate * 1000)
SampleToMs(sample, rate) == (sample * 1000) \div rate

\* SileroVAD.__init__
SileroVAD(threshold, silence_duration_ms, rate) ==
    [ kind |-> "silero", threshold |-> threshold,
      silence_samples |-> (silence_duration_ms * rate) \div 1000,
      sample_rate |-> rate,
      window_size |-> IF rate = 16000 THEN 512 ELSE 256,
      is_speaking |-> FALSE, speech_start_sample |-> 0,
      last_speech_sample |-> 0, silence_counter |-> 0, buffer |-> 0 ]

\* VADManager.__init__
VADManager(enabled, threshold, silence_duration_ms, rate) ==
    IF enabled THEN SileroVAD(threshold, silence_duration_ms, rate)
    ELSE [NoVadManager EXCEPT !.kind = "disabled"]

\* SileroVAD.reset
SileroReset(v) ==
    [v EXCEPT !.is_speaking = FALSE, !.speech_start_sample = 0,
              !.last_speech_sample = 0, !.silence_counter = 0, !.buffer = 0]

\* VADManager.reset
VadManagerReset(v) == IF v.kind = "silero" THEN SileroReset(v) ELSE v

\* the result dict of process / _process_window
NoVadResult ==
    [ speech_started |-> FALSE, audio_start_ms |-> 0,
      speech_stopped |-> FALSE, audio_end_ms |-> 0 ]

\* SileroVAD._process_window: one window of window_size samples whose speech
\* probability is prob; returns the engine and the window's result
ProcessWindow(v, prob, window_start) ==
    LET window_end == window_start + v.window_size IN
    IF prob > v.threshold
    THEN [ vad |-> [v EXCEPT !.is_speaking = TRUE,
                             !.speech_start_sample =
                                 IF v.is_speaking THEN @ ELSE window_start,
                             !.last_speech_sample = window_end,
                             !.silence_counter = 0],
           result |-> IF v.is_speaking THEN NoVadResult
                      ELSE [NoVadResult EXCEPT
                               !.speech_started = TRUE,
                               !.audio_start_ms = SampleToMs(window_start, v.sample_rate)] ]
    ELSE IF v.is_speaking
         THEN LET counter == v.silence_counter + v.window_size IN
              IF counter >= v.silence_samples
              THEN [ vad |-> [v EXCEPT !.silence_counter = counter,
                                       !.is_speaking = FALSE],
                     result |-> [NoVadResult EXCEPT
                                    !.speech_stopped = TRUE,
                                    !.audio_end_ms =
                                        SampleToMs(v.last_speech_sample, v.sample_rate)] ]
              ELSE [ vad |-> [v EXCEPT !.silence_counter = counter],
                     result |-> NoVadResult ]
         ELSE [ vad |-> v, result |-> NoVadResult ]

\* the merge of a window's result into the chunk's result (vad.py 96-101)
MergeResult(result, w) ==
    [ speech_started |-> result.speech_started \/ w.speech_started,
      audio_start_ms |-> IF w.speech_started THEN w.audio_start_ms
                         ELSE result.audio_start_ms,
      speech_stopped |-> result.speech_stopped \/ w.speech_stopped,
      audio_end_ms   |-> IF w.speech_stopped THEN w.audio_end_ms
                         ELSE result.audio_end_ms ]

RECURSIVE ProcessLoopLeavesFullWindow(_, _, _, _, _)
\* mutant of ProcessLoop: the loop stops as soon as the buffer holds no more
\* than one window, so a full window can stay in the buffer undecided
ProcessLoopLeavesFullWindow(v, probs, i, chunk_start, result) ==
    IF v.buffer > v.window_size
    THEN LET w == ProcessWindow([v EXCEPT !.buffer = @ - v.window_size],
                                probs[i], chunk_start)
         IN ProcessLoopLeavesFullWindow(w.vad, probs, i + 1,
                                        chunk_start + v.window_size,
                                        MergeResult(result, w.result))
    ELSE [ vad |-> v, result |-> result ]

RECURSIVE ProcessLoop(_, _, _, _, _)
\* the while loop of SileroVAD.process: i is the index of the next window
ProcessLoop(v, probs, i, chunk_start, result) ==
    IF v.buffer >= v.window_size
    THEN LET w == ProcessWindow([v EXCEPT !.buffer = @ - v.window_size],
                                probs[i], chunk_start)
         IN ProcessLoop(w.vad, probs, i + 1, chunk_start + v.window_size,
                        MergeResult(result, w.result))
    ELSE [ vad |-> v, result |-> result ]

\* SileroVAD.process (the network is loaded)
SileroProcess(v, n, probs, total) ==
    ProcessLoop([v EXCEPT !.buffer = @ + n], probs, 1, total - n, NoVadResult)

\* VADManager.process
VadManagerProcess(v, n, probs, total) ==
    IF v.kind # "silero" THEN [ vad |-> v, result |-> NoVadResult ]
    ELSE SileroProcess(v, n, probs, total)

\* the number of windows process evaluates for a chunk of n samples
WindowsFormed(v, n) ==
    IF v.kind = "silero" THEN (v.buffer + n) \div v.window_size ELSE 0

\* VADManager.force_stop / SileroVAD.force_stop: stopped is FALSE for None
VadManagerForceStop(v) ==
    IF v.kind = "silero" /\ v.is_speaking
    THEN [ vad |-> [v EXCEPT !.is_speaking = FALSE], stopped |-> TRUE,
           audio_end_ms |-> SampleToMs(v.last_speech_sample, v.sample_rate) ]
    ELSE [ vad |-> v, stopped |-> FALSE, audio_end_ms |-> 0 ]

(***************************************************************************)
(* models/asr_session.py: ASRSession.  live says that state is not None,   *)
(* state_text is state.text, current_text is _current_text, language the   *)
(* language hint, current_language is _current_language, locked that       *)
(* _lock is held.  The session task is the only one that takes the lock,   *)
(* so a call that finds it held waits for ever: blocked.                   *)
(***************************************************************************)
NoAsrSession ==
    [ exists |-> FALSE, live |-> FALSE, state_text |-> <<>>, current_text |-> <<>>,
      language |-> NoLanguage, current_language |-> NoLanguage, locked |-> FALSE ]

\* ASRSession.__init__
ASRSession(lang) ==
    [NoAsrSession EXCEPT !.exists = TRUE, !.language = lang,
                         !.current_language = lang]

\* entering and leaving "async with self._lock"
Acquire(a) == [a EXCEPT !.locked = TRUE]
Release(a) == [a EXCEPT !.locked = FALSE]

\* mutant of AsrAppendAudio: the lock is taken and given back by hand, and the
\* except branch of the feed forgets to give it back
AsrAppendAudioHoldsLock(a, init_ok, feed) ==
    IF ~a.live /\ ~init_ok
    THEN [ asr |-> a, raised |-> TRUE, blocked |-> FALSE, failed |-> {"init"} ]
    ELSE LET a1 == IF a.live THEN a ELSE [a EXCEPT !.live = TRUE, !.state_text = <<>>]
         IN IF a1.locked
            THEN [ asr |-> a1, raised |-> FALSE, blocked |-> TRUE, failed |-> {} ]
            ELSE [ asr |-> IF feed.ok
                           THEN Release([Acquire(a1) EXCEPT !.state_text = feed.text,
                                                            !.current_text = feed.text,
                                                            !.current_language =
                                                                feed.language])
                           ELSE Acquire(a1),
                   raised |-> FALSE, blocked |-> FALSE,
                   failed |-> IF feed.ok THEN {} ELSE {"feed"} ]

\* ASRSession.append_audio: initialize when there is no state (an exception of
\* initialize propagates: raised), then, under the lock, feed (an exception of
\* feed is logged); the lock is released on both ways out of the with block
AsrAppendAudio(a, init_ok, feed) ==
    IF ~a.live /\ ~init_ok
    THEN [ asr |-> a, raised |-> TRUE, blocked |-> FALSE, failed |-> {"init"} ]
    ELSE LET a1 == IF a.live THEN a ELSE [a EXCEPT !.live = TRUE, !.state_text = <<>>]
         IN IF a1.locked
            THEN [ asr |-> a1, raised |-> FALSE, blocked |-> TRUE, failed |-> {} ]
            ELSE [ asr |-> Release(IF feed.ok
                                   THEN [Acquire(a1) EXCEPT !.state_text = feed.text,
                                                            !.current_text = feed.text,
                                                            !.current_language =
                                                                feed.language]
                                   ELSE Acquire(a1)),
                   raised |-> FALSE, blocked |-> FALSE,
                   failed |-> IF feed.ok THEN {} ELSE {"feed"} ]

\* mutant of AsrInterimResult: a text of 20 characters is split already
AsrInterimResultSplitsAt20(a) ==
    LET text == a.current_text
        code == DetectLanguageCode(a.current_language)
        confirmed_end == Len(text) - (IF 10 < Len(text) \div 3 THEN 10 ELSE Len(text) \div 3)
    IN IF text = <<>>
       THEN [ none |-> TRUE, language |-> code, text |-> <<>>, stash |-> <<>> ]
       ELSE IF Len(text) >= 20
            THEN [ none |-> FALSE, language |-> code,
                   text |-> SubSeq(text, 1, confirmed_end),
                   stash |-> SubSeq(text, confirmed_end + 1, Len(text)) ]
            ELSE [ none |-> FALSE, language |-> code, text |-> <<>>,
                   stash |-> text ]

\* ASRSession.get_interim_result: none is TRUE for a None result
AsrInterimResult(a) ==
    LET text == a.current_text
        code == DetectLanguageCode(a.current_language)
        confirmed_end == Len(text) - (IF 10 < Len(text) \div 3 THEN 10 ELSE Len(text) \div 3)
    IN IF text = <<>>
       THEN [ none |-> TRUE, language |-> code, text |-> <<>>, stash |-> <<>> ]
       ELSE IF Len(text) > 20
            THEN [ none |-> FALSE, language |-> code,
                   text |-> SubSeq(text, 1, confirmed_end),
                   stash |-> SubSeq(text, confirmed_end + 1, Len(text)) ]
            ELSE [ none |-> FALSE, language |-> code, text |-> <<>>,
                   stash |-> text ]

\* ASRSession.finish: the final transcript and the code of its language; a
\* failed finalize is answered with the text of the state as it was and the
\* language "zh".  Both returns lie inside the with block, which releases the
\* lock on the way out.
AsrFinish(a, fin) ==
    IF ~a.live
    THEN [ asr |-> a, transcript |-> <<>>, language |-> "zh", blocked |-> FALSE,
           failed |-> {} ]
    ELSE IF a.locked
    THEN [ asr |-> a, transcript |-> <<>>, language |-> "zh", blocked |-> TRUE,
           failed |-> {} ]
    ELSE IF fin.ok
         THEN [ asr |-> Release([Acquire(a) EXCEPT !.state_text = fin.text]),
                transcript |-> fin.text,
                language |-> DetectLanguageCode(fin.language),
                blocked |-> FALSE, failed |-> {} ]
         ELSE [ asr |-> Release(Acquire(a)), transcript |-> a.state_text,
                language |-> "zh", blocked |-> FALSE, failed |-> {"finalize"} ]

\* ASRSession.reset, under the lock
AsrReset(a) ==
    Release([Acquire(a) EXCEPT !.live = FALSE, !.state_text = <<>>,
                               !.current_text = <<>>,
                               !.current_language = a.language])

(***************************************************************************)
(* utils/audio.py: the audio decoder.  A decoder returns the number of     *)
(* samples of the array it builds, None for the None it returns, or raises.*)
(***************************************************************************)
\* the result None of a decoder
None == [ raised |-> FALSE, none |-> TRUE, samples |-> 0 ]
\* an array of n samples
Array(n) == [ raised |-> FALSE, none |-> FALSE, samples |-> n ]
\* an exception that leaves the decoder
Raise == [ raised |-> TRUE, none |-> FALSE, samples |-> 0 ]

\* decode_base64_audio: the bytes (here the payload itself), or None
DecodeBase64Audio(audio) == IF audio.b64 THEN Array(audio.bytes) ELSE None

\* decode_pcm_to_numpy: np.frombuffer raises when the byte count is no
\* multiple of the sample width, and the except branch returns None
DecodePcmToNumpy(audio, bits) ==
    IF bits \notin {16, 32} THEN None
    ELSE IF audio.bytes % (bits \div 8) # 0 THEN None
    ELSE Array(audio.bytes \div (bits \div 8))

\* decode_opus_to_numpy: the ImportError of a missing opuslib is raised again,
\* any other exception (a frame the decoder rejects) gives None
DecodeOpusToNumpy(audio) ==
    IF ~opuslib THEN Raise
    ELSE IF audio.opus = Absent THEN None
    ELSE Array(audio.opus)

\* bytes_to_numpy
BytesToNumpy(audio, format) ==
    LET f == Lower(format) IN
    IF f \in {"pcm", "pcm16", "pcm_s16le"} THEN DecodePcmToNumpy(audio, 16)
    ELSE IF f \in {"pcm32", "pcm_s32le"} THEN DecodePcmToNumpy(audio, 32)
    ELSE IF f \in {"opus", "opuslib"} THEN DecodeOpusToNumpy(audio)
    ELSE DecodePcmToNumpy(audio, 16)

\* the audio field is decoded to an array (of any length) in the format
Decodes(audio, format) ==
    /\ ~audio.empty
    /\ ~DecodeBase64Audio(audio).none
    /\ ~BytesToNumpy(audio, format).none
    /\ ~BytesToNumpy(audio, format).raised

\* the samples _handle_audio_append adds to the session for an audio field
SamplesOf(audio, format) ==
    IF audio.empty \/ DecodeBase64Audio(audio).none THEN 0
    ELSE BytesToNumpy(audio, format).samples

(***************************************************************************)
(* handlers/websocket_handler.py: WebSocketHandler.  A handler is an       *)
(* operator from the handler object (the record Self of its fields) to the *)
(* handler object after the call; s.raised says that an exception is       *)
(* propagating out of the handler, s.hung that the handler waits for the   *)
(* lock of the ASR session and will not return.                            *)
(***************************************************************************)
Self ==
    [ vad_enabled |-> vad_enabled, vad_threshold |-> vad_threshold,
      vad_silence_ms |-> vad_silence_ms, sample_rate |-> sample_rate,
      audio_buffer |-> audio_buffer, total_samples |-> total_samples,
      vad_manager |-> vad_manager, asr_session |-> asr_session,
      current_item_id |-> current_item_id, previous_item_id |-> previous_item_id,
      speech_active |-> speech_active, last_commit_time |-> last_commit_time,
      segment_start_time |-> segment_start_time, finished |-> finished,
      out |-> out, next_item |-> next_item, fed_samples |-> fed_samples,
      audio_format |-> audio_format, language |-> language, failed |-> {},
      raised |-> FALSE, hung |-> FALSE ]

\* F at the value of x: x is evaluated once, however often F reads it
At(x, F(_)) == CHOOSE y \in { F(v) : v \in { x } } : TRUE

\* _send_event
SendEvent(s, event) == [s EXCEPT !.out = Append(@, event)]

\* _send_error
SendError(s, error_type, code) == SendEvent(s, create_error_event(error_type, code))

\* the turn_detection argument of session.created / session.updated
TurnDetectionOf(s) ==
    [ null |-> FALSE, threshold |-> s.vad_threshold,
      silence_duration_ms |-> s.vad_silence_ms ]

\* mutant of HandleSessionUpdate: a key that turn_detection does not carry keeps
\* the value of the earlier configuration
HandleSessionUpdateCarriesOver(s, format, rate, hint, td) ==
    LET s0 == IF format = Unset THEN s ELSE [s EXCEPT !.audio_format = format]
        sr == IF rate = Absent THEN s0 ELSE [s0 EXCEPT !.sample_rate = rate]
        s1 == IF hint = Unset THEN sr
              ELSE [sr EXCEPT !.language = normalize_language(hint)]
        s2 == IF td.null
              THEN [s1 EXCEPT !.vad_enabled = FALSE]
              ELSE [s1 EXCEPT
                       !.vad_enabled = TRUE,
                       !.vad_threshold =
                           IF td.threshold = Absent THEN @ ELSE td.threshold,
                       !.vad_silence_ms =
                           IF td.silence_duration_ms = Absent THEN @
                           ELSE td.silence_duration_ms]
        s3 == [s2 EXCEPT
                 !.vad_manager = VADManager(s2.vad_enabled, s2.vad_threshold,
                                            s2.vad_silence_ms, s2.sample_rate),
                 !.asr_session = ASRSession(s2.language)]
    IN SendEvent(s3, create_session_updated_event(
                         IF s3.vad_enabled THEN TurnDetectionOf(s3)
                         ELSE NoTurnDetection))

\* mutant of HandleSessionUpdate: the update closes the item that is open
HandleSessionUpdateClosesItem(s, format, rate, hint, td) ==
    LET s0 == IF format = Unset THEN s ELSE [s EXCEPT !.audio_format = format]
        sr == IF rate = Absent THEN s0 ELSE [s0 EXCEPT !.sample_rate = rate]
        s1 == IF hint = Unset THEN sr
              ELSE [sr EXCEPT !.language = normalize_language(hint)]
        s2 == IF td.null
              THEN [s1 EXCEPT !.vad_enabled = FALSE]
              ELSE [s1 EXCEPT
                       !.vad_enabled = TRUE,
                       !.vad_threshold =
                           IF td.threshold = Absent THEN DEFAULT_THRESHOLD
                           ELSE td.threshold,
                       !.vad_silence_ms =
                           IF td.silence_duration_ms = Absent
                           THEN DEFAULT_VAD_SILENCE_DURATION_MS
                           ELSE td.silence_duration_ms]
        s3 == [s2 EXCEPT
                 !.vad_manager = VADManager(s2.vad_enabled, s2.vad_threshold,
                                            s2.vad_silence_ms, s2.sample_rate),
                 !.asr_session = ASRSession(s2.language),
                 !.previous_item_id =
                     IF s2.current_item_id = 0 THEN @ ELSE s2.current_item_id,
                 !.current_item_id = 0]
    IN SendEvent(s3, create_session_updated_event(
                         IF s3.vad_enabled THEN TurnDetectionOf(s3)
                         ELSE NoTurnDetection))

\* _handle_session_update; hint is input_audio_transcription.language (Unset
\* when the session object has no input_audio_transcription, NoLanguage when
\* that object names no language); a turn_detection key that is missing reads
\* as null (session_data.get)
HandleSessionUpdate(s, format, rate, hint, td) ==
    LET s0 == IF format = Unset THEN s ELSE [s EXCEPT !.audio_format = format]
        sr == IF rate = Absent THEN s0 ELSE [s0 EXCEPT !.sample_rate = rate]
        s1 == IF hint = Unset THEN sr
              ELSE [sr EXCEPT !.language = normalize_language(hint)]
        s2 == IF td.null
              THEN [s1 EXCEPT !.vad_enabled = FALSE]
              ELSE [s1 EXCEPT
                       !.vad_enabled = TRUE,
                       !.vad_threshold =
                           IF td.threshold = Absent THEN DEFAULT_THRESHOLD
                           ELSE td.threshold,
                       !.vad_silence_ms =
                           IF td.silence_duration_ms = Absent
                           THEN DEFAULT_VAD_SILENCE_DURATION_MS
                           ELSE td.silence_duration_ms]
        s3 == [s2 EXCEPT
                 !.vad_manager = VADManager(s2.vad_enabled, s2.vad_threshold,
                                            s2.vad_silence_ms, s2.sample_rate),
                 !.asr_session = ASRSession(s2.language)]
    IN SendEvent(s3, create_session_updated_event(
                         IF s3.vad_enabled THEN TurnDetectionOf(s3)
                         ELSE NoTurnDetection))

\* mutant of SendTranscriptionText: the interim result is sent whether or not
\* an item is open
SendTranscriptionTextUnguarded(s, result) ==
    SendEvent(s, create_transcription_text_event(
                     s.current_item_id, result.language, result.text,
                     result.stash))

\* _send_transcription_text
SendTranscriptionText(s, result) ==
    IF s.current_item_id = 0 THEN s
    ELSE SendEvent(s, create_transcription_text_event(
                          s.current_item_id, result.language, result.text,
                          result.stash))

\* mutant of SendTranscriptionCompleted: an empty final transcript is not
\* reported
SendTranscriptionCompletedSkipEmpty(s, result) ==
    IF s.current_item_id = 0 \/ result.transcript = <<>> THEN s
    ELSE SendEvent(s, create_transcription_completed_event(
                          s.current_item_id, result.language, result.transcript))

\* _send_transcription_completed
SendTranscriptionCompleted(s, result) ==
    IF s.current_item_id = 0 THEN s
    ELSE SendEvent(s, create_transcription_completed_event(
                          s.current_item_id, result.language, result.transcript))

\* mutant of CloseItem: the commit forgets to advance previous_item_id
CloseItemKeepPrevious(s) ==
    [s EXCEPT !.current_item_id = 0]

\* _commit_audio, lines 352-353: the committed item becomes the previous item
CloseItem(s) ==
    [s EXCEPT !.previous_item_id = s.current_item_id, !.current_item_id = 0]

\* mutant of CommitAudio: the commit does not pair input_audio_buffer.committed
\* with conversation.item.created
CommitAudioWithoutCreated(s, fin, t) ==
    IF s.current_item_id = 0 THEN s
    ELSE
    LET s2 == SendEvent(s, create_input_audio_buffer_committed_event(
                               s.previous_item_id, s.current_item_id))
        s3 == IF s2.asr_session.exists
              THEN LET r == AsrFinish(s2.asr_session, fin)
                   IN SendTranscriptionCompleted(
                          [s2 EXCEPT !.asr_session = r.asr], r)
              ELSE s2
        s4 == CloseItem(s3)
        s5 == IF s4.asr_session.exists
              THEN [s4 EXCEPT !.asr_session = AsrReset(@)] ELSE s4
        s6 == IF s5.vad_manager.kind # "none"
              THEN [s5 EXCEPT !.vad_manager = VadManagerReset(@)] ELSE s5
    IN [s6 EXCEPT !.audio_buffer = 0, !.last_commit_time = t,
                  !.segment_start_time = t]

\* mutant of CommitAudio: the commit leaves the VAD engine as it is
CommitAudioKeepsVad(s, fin, t) ==
    IF s.current_item_id = 0 THEN s
    ELSE
    LET s1 == SendEvent(s, create_input_audio_buffer_committed_event(
                               s.previous_item_id, s.current_item_id))
        s2 == SendEvent(s1, create_conversation_item_created_event(
                                s1.current_item_id, s1.previous_item_id))
        s3 == IF s2.asr_session.exists
              THEN LET r == AsrFinish(s2.asr_session, fin)
                   IN SendTranscriptionCompleted(
                          [s2 EXCEPT !.asr_session = r.asr,
                                     !.failed = @ \cup r.failed],
                          r)
              ELSE s2
        s4 == CloseItem(s3)
        s5 == IF s4.asr_session.exists
              THEN [s4 EXCEPT !.asr_session = AsrReset(@)] ELSE s4
    IN [s5 EXCEPT !.audio_buffer = 0, !.last_commit_time = t,
                  !.segment_start_time = t]

\* _commit_audio
CommitAudio(s, fin, t) ==
    IF s.current_item_id = 0 THEN s
    ELSE
    LET s1 == SendEvent(s, create_input_audio_buffer_committed_event(
                               s.previous_item_id, s.current_item_id))
        s2 == SendEvent(s1, create_conversation_item_created_event(
                                s1.current_item_id, s1.previous_item_id))
        s3 == IF s2.asr_session.exists
              THEN LET r == AsrFinish(s2.asr_session, fin)
                   IN IF r.blocked THEN [s2 EXCEPT !.hung = TRUE]
                      ELSE SendTranscriptionCompleted(
                               [s2 EXCEPT !.asr_session = r.asr,
                                          !.failed = @ \cup r.failed],
                               r)
              ELSE s2
        s4 == CloseItem(s3)
        s5 == IF s4.asr_session.exists
              THEN IF s4.asr_session.locked THEN [s4 EXCEPT !.hung = TRUE]
                   ELSE [s4 EXCEPT !.asr_session = AsrReset(@)]
              ELSE s4
        s6 == IF s5.vad_manager.kind # "none"
              THEN [s5 EXCEPT !.vad_manager = VadManagerReset(@)] ELSE s5
    IN IF s3.hung THEN s3
       ELSE IF s5.hung THEN s5
       ELSE [s6 EXCEPT !.audio_buffer = 0, !.last_commit_time = t,
                       !.segment_start_time = t]

\* _auto_commit_and_continue
AutoCommitAndContinue(s, fin, t) ==
    IF s.current_item_id = 0 THEN s
    ELSE
    LET s1 == SendEvent(s, create_input_audio_buffer_committed_event(
                               s.previous_item_id, s.current_item_id))
        s2 == IF s1.asr_session.exists
              THEN LET r == AsrFinish(s1.asr_session, fin)
                       c == SendTranscriptionCompleted(
                                [s1 EXCEPT !.asr_session = r.asr,
                                           !.failed = @ \cup r.failed],
                                r)
                   IN IF r.blocked \/ r.asr.locked THEN [s1 EXCEPT !.hung = TRUE]
                      ELSE [c EXCEPT !.asr_session = AsrReset(@)]
              ELSE s1
        s3 == [s2 EXCEPT !.previous_item_id = s2.current_item_id,
                         !.current_item_id = s2.next_item,
                         !.next_item = @ + 1,
                         !.segment_start_time = t,
                         !.last_commit_time = t,
                         !.audio_buffer = 0]
    IN IF s2.hung THEN s2
       ELSE SendEvent(s3, create_conversation_item_created_event(
                              s3.current_item_id, s3.previous_item_id))

\* _check_auto_commit
CheckAutoCommit(s, fin, t) ==
    IF s.current_item_id = 0 THEN s
    ELSE IF s.segment_start_time = 0 THEN [s EXCEPT !.segment_start_time = t]
    ELSE IF t - s.segment_start_time >= AUTO_COMMIT_INTERVAL_SEC
         THEN AutoCommitAndContinue(s, fin, t)
         ELSE s

\* _handle_speech_stopped
HandleSpeechStopped(s, audio_end_ms, fin, t) ==
    IF ~s.speech_active \/ s.current_item_id = 0 THEN s
    ELSE CommitAudio(
             SendEvent([s EXCEPT !.speech_active = FALSE],
                       create_speech_stopped_event(audio_end_ms, s.current_item_id)),
             fin, t)

\* _process_vad
ProcessVad(s, n, probs, fin, t) ==
    IF s.vad_manager.kind = "none" THEN s
    ELSE
    LET r  == VadManagerProcess(s.vad_manager, n, probs, s.total_samples)
        s1 == [s EXCEPT !.vad_manager = r.vad]
        s2 == IF r.result.speech_started /\ ~s1.speech_active
              THEN SendEvent(
                       [s1 EXCEPT !.speech_active = TRUE,
                                  !.current_item_id = s1.next_item,
                                  !.next_item = @ + 1,
                                  !.segment_start_time = t],
                       create_speech_started_event(r.result.audio_start_ms,
                                                   s1.next_item))
              ELSE s1
    IN IF r.result.speech_stopped /\ s2.speech_active
       THEN HandleSpeechStopped(s2, r.result.audio_end_ms, fin, t)
       ELSE s2

\* _handle_audio_append, lines 271-275: the n samples of the frame go to the
\* ASR session and its interim result, if any, goes to the client
FeedAudio(s, n, be) ==
    IF ~s.asr_session.exists THEN s
    ELSE At(AsrAppendAudio(s.asr_session, be.init_ok, be.feed),
            LAMBDA r :
              IF r.blocked THEN [s EXCEPT !.hung = TRUE]
              ELSE IF r.raised
              THEN [s EXCEPT !.raised = TRUE, !.fed_samples = @ + n,
                             !.failed = @ \cup r.failed]
              ELSE LET s2a == [s EXCEPT !.asr_session = r.asr,
                                        !.fed_samples = @ + n,
                                        !.failed = @ \cup r.failed]
                       interim == AsrInterimResult(r.asr)
                   IN IF interim.none THEN s2a
                      ELSE SendTranscriptionText(s2a, interim))

\* _handle_audio_append: audio is the audio field of the message, probs the
\* network's answers for the windows formed, be the backend's answers, t the
\* time
HandleAudioAppend(s, audio, probs, be, t) ==
    IF audio.empty THEN s
    ELSE IF DecodeBase64Audio(audio).none
    THEN SendError(s, "invalid_request_error", "invalid_audio")
    ELSE IF BytesToNumpy(audio, s.audio_format).raised
    THEN [s EXCEPT !.raised = TRUE]
    ELSE IF BytesToNumpy(audio, s.audio_format).none
    THEN SendError(s, "invalid_request_error", "invalid_audio_format")
    ELSE
    LET n  == BytesToNumpy(audio, s.audio_format).samples
        s1 == [s EXCEPT !.audio_buffer = @ + n, !.total_samples = @ + n]
        s2 == IF s1.vad_enabled /\ s1.vad_manager.kind # "none"
              THEN ProcessVad(s1, n, probs, be.fin, t)
              ELSE IF ~s1.vad_enabled /\ s1.current_item_id = 0
                   THEN SendEvent(
                            [s1 EXCEPT !.current_item_id = s1.next_item,
                                       !.next_item = @ + 1,
                                       !.segment_start_time = t],
                            create_conversation_item_created_event(
                                s1.next_item, s1.previous_item_id))
                   ELSE s1
        s3 == At(s2, LAMBDA x : IF x.hung THEN x ELSE FeedAudio(x, n, be))
    IN At(s3, LAMBDA x : IF x.raised \/ x.hung THEN x
                         ELSE CheckAutoCommit(x, be.fin, t))

\* mutant of HandleAudioCommit: the return after the error is missing, so the
\* commit goes on in VAD mode
HandleAudioCommitFallThrough(s, fin, t) ==
    LET s1 == IF s.vad_enabled
              THEN SendError(s, "invalid_request_error", "commit_not_allowed")
              ELSE s
    IN CommitAudio(
           IF s1.current_item_id = 0
           THEN [s1 EXCEPT !.current_item_id = s1.next_item, !.next_item = @ + 1]
           ELSE s1,
           fin, t)

\* mutant of HandleAudioCommit: a commit that finds no open item is refused
HandleAudioCommitRefusesEmpty(s, fin, t) ==
    IF s.vad_enabled
    THEN SendError(s, "invalid_request_error", "commit_not_allowed")
    ELSE IF s.current_item_id = 0
         THEN SendError(s, "invalid_request_error", "invalid_audio")
         ELSE CommitAudio(s, fin, t)

\* _handle_audio_commit
HandleAudioCommit(s, fin, t) ==
    IF s.vad_enabled
    THEN SendError(s, "invalid_request_error", "commit_not_allowed")
    ELSE CommitAudio(
             IF s.current_item_id = 0
             THEN [s EXCEPT !.current_item_id = s.next_item, !.next_item = @ + 1]
             ELSE s,
             fin, t)

\* mutant of HandleSessionFinish: the branch that forces the speech stop returns
\* without emitting session.finished
HandleSessionFinishEarlyReturn(s, fin, t) ==
    IF s.vad_manager.kind # "none" /\ s.speech_active
    THEN LET f == VadManagerForceStop(s.vad_manager) IN
         IF f.stopped
         THEN HandleSpeechStopped([s EXCEPT !.vad_manager = f.vad],
                                  f.audio_end_ms, fin, t)
         ELSE s
    ELSE [SendEvent(IF s.current_item_id # 0 THEN CommitAudio(s, fin, t) ELSE s,
                    create_session_finished_event)
             EXCEPT !.finished = TRUE]

\* mutant of HandleSessionFinish: finished is not set, so the receive loop goes
\* on after session.finished
HandleSessionFinishKeepsReading(s, fin, t) ==
    LET s1 == IF s.vad_manager.kind # "none" /\ s.speech_active
              THEN LET f == VadManagerForceStop(s.vad_manager) IN
                   IF f.stopped
                   THEN HandleSpeechStopped([s EXCEPT !.vad_manager = f.vad],
                                            f.audio_end_ms, fin, t)
                   ELSE s
              ELSE IF s.current_item_id # 0 THEN CommitAudio(s, fin, t)
              ELSE s
    IN SendEvent(s1, create_session_finished_event)

\* _handle_session_finish
HandleSessionFinish(s, fin, t) ==
    LET s1 == IF s.vad_manager.kind # "none" /\ s.speech_active
              THEN LET f == VadManagerForceStop(s.vad_manager) IN
                   IF f.stopped
                   THEN HandleSpeechStopped([s EXCEPT !.vad_manager = f.vad],
                                            f.audio_end_ms, fin, t)
                   ELSE s
              ELSE IF s.current_item_id # 0 THEN CommitAudio(s, fin, t)
              ELSE s
    IN IF s1.hung THEN s1
       ELSE [SendEvent(s1, create_session_finished_event) EXCEPT !.finished = TRUE]

(***************************************************************************)
(* WebSocketHandler.handle: the receive loop.  phase is "open" while the   *)
(* loop runs, "closed" after _cleanup and "hung" when a handler waits for  *)
(* ever.  msgs counts the inbound                                          *)
(* messages received and last_msg is the type of the last one.             *)
(***************************************************************************)
\* the handler object after a handler returned or raised: the except branch of
\* handle reports the exception as an error event
AfterHandler(r) ==
    IF r.raised THEN SendError(r, "internal_error", "server_error") ELSE r

\* the fields of the handler object become the next state; the loop ends when
\* finished is set or an exception left the handler, and _cleanup closes the
\* ASR session
Return(r, type) ==
    \E h \in { r } : \E e \in { AfterHandler(h) } :
       LET closing == ~e.hung /\ (e.raised \/ e.finished) IN
       /\ vad_enabled' = e.vad_enabled
       /\ vad_threshold' = e.vad_threshold
       /\ vad_silence_ms' = e.vad_silence_ms
       /\ sample_rate' = e.sample_rate
       /\ audio_buffer' = e.audio_buffer
       /\ total_samples' = e.total_samples
       /\ vad_manager' = e.vad_manager
       /\ asr_session' = IF closing /\ e.asr_session.exists
                         THEN [e.asr_session EXCEPT !.live = FALSE, !.state_text = <<>>]
                         ELSE e.asr_session
       /\ current_item_id' = e.current_item_id
       /\ previous_item_id' = e.previous_item_id
       /\ speech_active' = e.speech_active
       /\ last_commit_time' = e.last_commit_time
       /\ segment_start_time' = e.segment_start_time
       /\ finished' = e.finished
       /\ out' = e.out
       /\ next_item' = e.next_item
       /\ fed_samples' = e.fed_samples
       /\ audio_format' = e.audio_format
       /\ language' = e.language
       /\ backend_failed' = e.failed
       /\ phase' = IF e.hung THEN "hung" ELSE IF closing THEN "closed" ELSE "open"
       /\ msgs' = msgs + 1
       /\ last_msg' = type
       /\ UNCHANGED << now, opuslib >>

\* the client of test_manual_mode sends session.update with turn_detection
\* null (1), one append of a non-empty frame for which the backend returns the
\* empty text (2), input_audio_buffer.commit (3) and session.finish (4): the
\* message handled now is message number step of that script when cond holds
\* of its inputs and the traffic followed the script up to there
ScriptStep(step, cond) ==
    manual_script' = IF manual_script = step - 1 /\ cond THEN step ELSE Absent

\* the message handled now carries this audio field, and no session object
Carries(audio) ==
    /\ last_audio' = audio
    /\ last_turn_detection' = NoTurnDetection
    /\ last_probs' = <<>>

\* the message handled now is a session.update with this turn_detection
CarriesTurnDetection(td) ==
    /\ last_audio' = NoAudio
    /\ last_turn_detection' = td
    /\ last_probs' = <<>>

\* the message handled now is an append of this audio field, and the network
\* gives these answers for the windows that the engine forms
CarriesWindows(audio, probs) ==
    /\ last_audio' = audio
    /\ last_turn_detection' = NoTurnDetection
    /\ last_probs' = probs

\* the loop is waiting in receive_text and the client sends one more message
Receiving == phase = "open" /\ ~finished /\ msgs < MaxMsgs

\* WebSocketHandler.__init__ and the session.created of handle
InitSession ==
    /\ vad_enabled = TRUE
    /\ vad_threshold = DEFAULT_THRESHOLD
    /\ vad_silence_ms = DEFAULT_VAD_SILENCE_DURATION_MS
    /\ sample_rate = DEFAULT_SAMPLE_RATE
    /\ audio_buffer = 0
    /\ total_samples = 0
    /\ vad_manager = NoVadManager
    /\ asr_session = NoAsrSession
    /\ current_item_id = 0
    /\ previous_item_id = 0
    /\ speech_active = FALSE
    /\ last_commit_time = 0
    /\ segment_start_time = 0
    /\ finished = FALSE
    /\ out = << create_session_created_event(
                    [ null |-> FALSE, threshold |-> DEFAULT_THRESHOLD,
                      silence_duration_ms |-> DEFAULT_VAD_SILENCE_DURATION_MS ]) >>
    /\ next_item = 1
    /\ phase = "open"
    /\ now = 1
    /\ msgs = 0
    /\ last_msg = "none"
    /\ manual_script = 0
    /\ fed_samples = 0
    /\ audio_format = "pcm"
    /\ language = NoLanguage
    /\ last_audio = NoAudio
    /\ backend_failed = {}
    /\ last_turn_detection = NoTurnDetection
    /\ last_probs = <<>>

\* a session of linear PCM audio, where the Opus decoder is never called
Init == InitSession /\ opuslib = TRUE

\* session.update
RecvSessionUpdate ==
    /\ Receiving
    /\ \E td \in TurnDetections, rate \in SampleRates :
          /\ Return(HandleSessionUpdate(Self, Unset, rate, Unset, td), "session.update")
          /\ ScriptStep(1, td.null)
          /\ CarriesTurnDetection(td)

\* the answers of the backend to initialize that an append of n samples can
\* meet: initialize is called when the ASR session has no state, which a commit
\* on a speech stop earlier in the same append brings about
InitAnswers(n) ==
    IF asr_session.exists /\ n > 0 /\ (~asr_session.live \/ vad_enabled)
    THEN InitOutcomes ELSE {TRUE}

\* the answers of the backend to finalize that an append of n samples can meet:
\* the append commits on a speech stop (VAD mode) or on the auto-commit of an
\* item that was open before
FinalizeAnswers(n) ==
    IF asr_session.exists /\ n > 0 /\ (vad_enabled \/ current_item_id # 0)
    THEN CallOutcomes ELSE { Failure }

\* input_audio_buffer.append
RecvAudioAppend ==
    /\ Receiving
    /\ \E n \in ChunkLens :
          /\ total_samples + n <= MaxSamples
          /\ \E probs \in ProbSeqs(IF vad_enabled THEN WindowsFormed(vad_manager, n) ELSE 0),
                feed \in (IF asr_session.exists /\ n > 0 THEN CallOutcomes
                          ELSE { Failure }) :
                \* r is what the handler makes of the frame for some answers
                \* of the backend to initialize and finalize
                \E r \in { HandleAudioAppend(Self, Pcm16Frame(n), probs,
                                              [init_ok |-> init_ok, feed |-> feed,
                                               fin |-> fin],
                                              now) :
                            init_ok \in InitAnswers(n), fin \in FinalizeAnswers(n) } :
                    /\ Return(r, "input_audio_buffer.append")
                    /\ ScriptStep(2, n > 0 /\ ~r.raised /\ feed.ok /\ feed.text = <<>>)
                    /\ Carries(Pcm16Frame(n))

\* input_audio_buffer.commit
RecvAudioCommit ==
    /\ Receiving
    /\ \E fin \in CallOutcomes :
          /\ Return(HandleAudioCommit(Self, fin, now), "input_audio_buffer.commit")
          /\ ScriptStep(3, fin.ok /\ fin.text = <<>>)
          /\ Carries(NoAudio)

\* session.finish
RecvSessionFinish ==
    /\ Receiving
    /\ \E fin \in CallOutcomes :
          /\ Return(HandleSessionFinish(Self, fin, now), "session.finish")
          /\ ScriptStep(4, TRUE)
          /\ Carries(NoAudio)

\* mutant of RecvUnknownEvent: a message of an unknown type is dropped without a
\* word
RecvUnknownEventSilent ==
    /\ Receiving
    /\ Return(Self, "unknown")
    /\ ScriptStep(0, FALSE)
    /\ Carries(NoAudio)

\* a message whose type is none of the four, the missing type included
\* (message.get("type", "") finds no handler: _handle_message, else branch)
RecvUnknownEvent ==
    /\ Receiving
    /\ Return(SendError(Self, "invalid_request_error", "invalid_event"), "unknown")
    /\ ScriptStep(0, FALSE)
    /\ Carries(NoAudio)

\* a text frame that json.loads rejects: the exception leaves the loop
RecvMalformed ==
    /\ Receiving
    /\ Return([Self EXCEPT !.raised = TRUE], "malformed")
    /\ ScriptStep(0, FALSE)
    /\ Carries(NoAudio)

\* the client goes away: receive_text raises WebSocketDisconnect
Disconnect ==
    /\ phase = "open" /\ ~finished
    /\ phase' = "closed"
    /\ asr_session' = IF asr_session.exists
                      THEN [asr_session EXCEPT !.live = FALSE, !.state_text = <<>>]
                      ELSE asr_session
    /\ UNCHANGED << vad_enabled, vad_threshold, vad_silence_ms, sample_rate,
                    audio_buffer, total_samples, vad_manager,
                    current_item_id, previous_item_id, speech_active,
                    last_commit_time, segment_start_time, finished,
                    out, next_item, now, msgs, last_msg, manual_script,
                    fed_samples, audio_format, opuslib, last_audio,
                    backend_failed, last_turn_detection, language,
                    last_probs >>

\* time passes while the loop waits for the next message.  The clock is read
\* only as its distance to segment_start_time, which every opening of an item
\* sets, so only the time that passes while an item is open is modelled, and
\* only until the auto-commit interval of that item has passed (_check_auto_commit
\* compares the distance with the interval, so a longer wait changes nothing).
Tick ==
    /\ phase = "open" /\ ~finished
    /\ current_item_id # 0
    /\ now - segment_start_time < AUTO_COMMIT_INTERVAL_SEC
    /\ now < MaxTime
    /\ now' = now + 1
    /\ UNCHANGED << vad_enabled, vad_threshold, vad_silence_ms, sample_rate,
                    audio_buffer, total_samples, vad_manager, asr_session,
                    current_item_id, previous_item_id, speech_active,
                    last_commit_time, segment_start_time, finished,
                    out, next_item, phase, msgs, last_msg, manual_script,
                    fed_samples, audio_format, opuslib, last_audio,
                    backend_failed, last_turn_detection, language,
                    last_probs >>

Next ==
    \/ RecvSessionUpdate
    \/ RecvAudioAppend
    \/ RecvAudioCommit
    \/ RecvSessionFinish
    \/ RecvUnknownEvent
    \/ RecvMalformed
    \/ Disconnect
    \/ Tick

Spec == Init /\ [][Next]_vars

(***************************************************************************)
(* Sessions that declare an audio format and receive audio fields of every *)
(* kind, in a deployment with or without opuslib.  The backend answers     *)
(* every call of an append, and the clock stands still.                    *)
(***************************************************************************)
InitAudio == InitSession /\ opuslib \in BOOLEAN

\* session.update with session.input_audio_format
RecvSessionUpdateFormat ==
    /\ Receiving
    /\ \E format \in AudioFormats,
          td \in { d \in TurnDetections : d.threshold = Absent } :
          /\ Return(HandleSessionUpdate(Self, format, Absent, Unset, td), "session.update")
          /\ ScriptStep(1, td.null)
          /\ CarriesTurnDetection(td)

\* input_audio_buffer.append with any audio field
RecvAudioAppendPayload ==
    /\ Receiving
    /\ \E audio \in Payloads :
          LET n == SamplesOf(audio, audio_format) IN
          /\ total_samples + n <= MaxSamples
          /\ \E probs \in ProbSeqs(IF vad_enabled THEN WindowsFormed(vad_manager, n) ELSE 0),
                text \in (IF asr_session.exists /\ Decodes(audio, audio_format)
                          THEN BackendTexts ELSE {<<>>}) :
                /\ Return(HandleAudioAppend(Self, audio, probs,
                                            [init_ok |-> TRUE,
                                             feed |-> Heard(text),
                                             fin |-> Heard(text)],
                                            now),
                          "input_audio_buffer.append")
                /\ ScriptStep(2, n > 0 /\ text = <<>>)
                /\ Carries(audio)

NextAudio ==
    \/ RecvSessionUpdateFormat
    \/ RecvAudioAppendPayload
    \/ RecvAudioCommit
    \/ RecvSessionFinish
    \/ RecvUnknownEvent

SpecAudio == InitAudio /\ [][NextAudio]_vars

(***************************************************************************)
(* A continuous audio stream in manual mode: after one session.update with *)
(* turn_detection null the client appends the stream second by second, at  *)
(* a pace of its own (faster than, at, or slower than real time), and may  *)
(* finish.  The backend answers every call.                                *)
(***************************************************************************)
\* one second of 16-bit audio at the session's sample rate
SecondOfAudio == Pcm16Frame(DEFAULT_SAMPLE_RATE)

\* the seconds of audio appended so far
StreamedSec == total_samples \div DEFAULT_SAMPLE_RATE

\* session.update with turn_detection null opens the stream
StreamUpdate ==
    /\ phase = "open" /\ ~finished /\ msgs = 0
    /\ Return(HandleSessionUpdate(Self, Unset, Absent, Unset, NoTurnDetection),
              "session.update")
    /\ ScriptStep(1, TRUE)
    /\ CarriesTurnDetection(NoTurnDetection)

\* the next second of the stream
StreamAppend ==
    /\ phase = "open" /\ ~finished /\ msgs > 0
    /\ StreamedSec < MaxStreamSec
    /\ \E text \in BackendTexts, final \in BackendTexts :
          /\ Return(HandleAudioAppend(Self, SecondOfAudio, <<>>,
                                      [init_ok |-> TRUE,
                                       feed |-> Heard(text),
                                       fin |-> Heard(final)],
                                      now),
                    "input_audio_buffer.append")
          /\ ScriptStep(0, FALSE)
          /\ Carries(SecondOfAudio)

\* session.finish ends the stream
StreamFinish ==
    /\ phase = "open" /\ ~finished /\ msgs > 0
    /\ \E final \in BackendTexts :
          /\ Return(HandleSessionFinish(Self, Heard(final), now),
                    "session.finish")
          /\ ScriptStep(0, FALSE)
          /\ Carries(NoAudio)

\* a second passes between two messages of the stream
StreamTick ==
    /\ phase = "open" /\ ~finished /\ msgs > 0
    /\ now < MaxStreamTime
    /\ now' = now + 1
    /\ UNCHANGED << vad_enabled, vad_threshold, vad_silence_ms, sample_rate,
                    audio_buffer, total_samples, vad_manager, asr_session,
                    current_item_id, previous_item_id, speech_active,
                    last_commit_time, segment_start_time, finished,
                    out, next_item, phase, msgs, last_msg, manual_script,
                    fed_samples, audio_format, opuslib, last_audio,
                    backend_failed, last_turn_detection, language,
                    last_probs >>

NextStream ==
    \/ StreamUpdate
    \/ StreamAppend
    \/ StreamFinish
    \/ StreamTick

SpecStream == Init /\ [][NextStream]_vars

(***************************************************************************)
(* A VAD-mode session whose client declares the sample rate anew between   *)
(* utterances.  The backend answers every call with the empty text and the *)
(* clock stands still.                                                     *)
(***************************************************************************)
\* session.sample_rate: the two rates the Silero network takes
DeclaredRates == {8000, 16000}

\* turn_detection of these sessions: a silence of 32 ms ends the speech
ShortSilence == [null |-> FALSE, threshold |-> Absent, silence_duration_ms |-> 32]

\* the backend answers with the empty text
EmptyText == Heard(<<>>)

RateReceiving == phase = "open" /\ ~finished /\ msgs < MaxRateMsgs

\* session.update with a sample rate
RateUpdate ==
    /\ RateReceiving
    /\ \E rate \in DeclaredRates :
          /\ Return(HandleSessionUpdate(Self, Unset, rate, Unset, ShortSilence),
                    "session.update")
          /\ ScriptStep(0, FALSE)
          /\ CarriesTurnDetection(ShortSilence)

\* input_audio_buffer.append
RateAppend ==
    /\ RateReceiving
    /\ \E n \in ChunkLens \ {0} :
          /\ total_samples + n <= MaxRateSamples
          /\ \E probs \in ProbSeqs(IF vad_enabled THEN WindowsFormed(vad_manager, n)
                                   ELSE 0) :
                /\ Return(HandleAudioAppend(Self, Pcm16Frame(n), probs,
                                            [init_ok |-> TRUE, feed |-> EmptyText,
                                             fin |-> EmptyText],
                                            now),
                          "input_audio_buffer.append")
                /\ ScriptStep(0, FALSE)
                /\ Carries(Pcm16Frame(n))

\* session.finish
RateFinish ==
    /\ RateReceiving
    /\ Return(HandleSessionFinish(Self, EmptyText, now), "session.finish")
    /\ ScriptStep(0, FALSE)
    /\ Carries(NoAudio)

NextRates ==
    \/ RateUpdate
    \/ RateAppend
    \/ RateFinish

SpecRates == Init /\ [][NextRates]_vars

(***************************************************************************)
(* A manual-mode session whose backend returns texts of every length up to *)
(* MaxTextLen: the current-best text of a feed may be longer or shorter    *)
(* than the one before.  The clock stands still.                           *)
(***************************************************************************)
\* the text of n characters (the i-th character is i)
Text(n) == [ i \in 1..n |-> i ]

\* the texts the backend returns
LongTexts == { Text(n) : n \in 0..MaxTextLen }

TextReceiving == phase = "open" /\ ~finished /\ msgs < MaxTextMsgs

\* session.update with turn_detection null
TextUpdate ==
    /\ TextReceiving /\ msgs = 0
    /\ Return(HandleSessionUpdate(Self, Unset, Absent, Unset, NoTurnDetection),
              "session.update")
    /\ ScriptStep(0, FALSE)
    /\ CarriesTurnDetection(NoTurnDetection)

\* input_audio_buffer.append of 256 samples; the feed returns a text
TextAppend ==
    /\ TextReceiving /\ msgs > 0
    /\ \E text \in LongTexts :
          /\ Return(HandleAudioAppend(Self, Pcm16Frame(256), <<>>,
                                      [init_ok |-> TRUE,
                                       feed |-> Heard(text),
                                       fin |-> EmptyText],
                                      now),
                    "input_audio_buffer.append")
          /\ ScriptStep(0, FALSE)
          /\ Carries(Pcm16Frame(256))

\* input_audio_buffer.commit ends the utterance
TextCommit ==
    /\ TextReceiving /\ msgs > 0
    /\ Return(HandleAudioCommit(Self, EmptyText, now), "input_audio_buffer.commit")
    /\ ScriptStep(0, FALSE)
    /\ Carries(NoAudio)

NextText ==
    \/ TextUpdate
    \/ TextAppend
    \/ TextCommit

SpecText == Init /\ [][NextText]_vars

(***************************************************************************)
(* A manual-mode session whose client names the language of the audio.     *)
(* The backend transcribes in the language it was given and reports that   *)
(* language; given none, it reports the language it detects.               *)
(***************************************************************************)
\* input_audio_transcription.language: every ISO code of the inbound table,
\* auto, no language, a full name and a code the table does not know
LanguageHints ==
    DOMAIN LANGUAGE_CODE_MAP \cup { "auto", NoLanguage, "Chinese", "xx" }

\* the names the backend reports when it detects the language itself
DetectedLanguages == { "Chinese", "English", "Klingon" }

\* the names the backend can report to this session
ReportedLanguages == IF language # NoLanguage THEN { language } ELSE DetectedLanguages

\* the backend returns this text in this language
HeardIn(text, lang) ==
    [ ok |-> TRUE, text |-> text,
      language |-> IF text = <<>> THEN NoLanguage ELSE lang ]

LanguageReceiving == phase = "open" /\ ~finished /\ msgs < MaxLanguageMsgs

\* session.update with a language and turn_detection null
LanguageUpdate ==
    /\ LanguageReceiving
    /\ \E hint \in LanguageHints :
          /\ Return(HandleSessionUpdate(Self, Unset, Absent, hint, NoTurnDetection),
                    "session.update")
          /\ ScriptStep(0, FALSE)
          /\ CarriesTurnDetection(NoTurnDetection)

\* input_audio_buffer.append of 256 samples
LanguageAppend ==
    /\ LanguageReceiving
    /\ \E text \in BackendTexts, lang \in ReportedLanguages :
          /\ Return(HandleAudioAppend(Self, Pcm16Frame(256), <<>>,
                                      [init_ok |-> TRUE,
                                       feed |-> HeardIn(text, lang),
                                       fin |-> HeardIn(text, lang)],
                                      now),
                    "input_audio_buffer.append")
          /\ ScriptStep(0, FALSE)
          /\ Carries(Pcm16Frame(256))

\* input_audio_buffer.commit
LanguageCommit ==
    /\ LanguageReceiving
    /\ \E text \in BackendTexts, lang \in ReportedLanguages :
          /\ Return(HandleAudioCommit(Self, HeardIn(text, lang), now),
                    "input_audio_buffer.commit")
          /\ ScriptStep(0, FALSE)
          /\ Carries(NoAudio)

NextLanguage ==
    \/ LanguageUpdate
    \/ LanguageAppend
    \/ LanguageCommit

SpecLanguage == Init /\ [][NextLanguage]_vars

(***************************************************************************)
(* Sessions in VAD mode that receive chunks of arbitrary sizes: chunks     *)
(* shorter than a window, chunks that complete a window begun by an        *)
(* earlier chunk, chunks of one window and chunks of three windows.  The   *)
(* backend answers every call with the empty text and the clock stands     *)
(* still.                                                                  *)
(***************************************************************************)
\* turn_detection of these sessions: one window of silence (32 ms at 16 kHz)
\* or two (64 ms) end the speech
VadTurnDetections ==
    { [null |-> FALSE, threshold |-> Absent, silence_duration_ms |-> ms] :
        ms \in {32, 64} }

\* samples decoded from one append of these sessions
VadChunkLens == {200, 312, 512, 1536}

VadReceiving == phase = "open" /\ ~finished /\ msgs < MaxVadMsgs

\* session.update that turns the VAD on, before the first audio
VadUpdate ==
    /\ VadReceiving
    /\ total_samples = 0
    /\ \E td \in VadTurnDetections, rate \in DeclaredRates :
          /\ Return(HandleSessionUpdate(Self, Unset, rate, Unset, td),
                    "session.update")
          /\ ScriptStep(0, FALSE)
          /\ CarriesTurnDetection(td)

\* input_audio_buffer.append
VadAppend ==
    /\ VadReceiving
    /\ \E n \in VadChunkLens :
          /\ total_samples + n <= MaxVadSamples
          /\ \E probs \in ProbSeqs(IF vad_enabled THEN WindowsFormed(vad_manager, n)
                                   ELSE 0) :
                /\ Return(HandleAudioAppend(Self, Pcm16Frame(n), probs,
                                            [init_ok |-> TRUE, feed |-> EmptyText,
                                             fin |-> EmptyText],
                                            now),
                          "input_audio_buffer.append")
                /\ ScriptStep(0, FALSE)
                /\ CarriesWindows(Pcm16Frame(n), probs)

\* session.finish
VadFinish ==
    /\ VadReceiving
    /\ Return(HandleSessionFinish(Self, EmptyText, now), "session.finish")
    /\ ScriptStep(0, FALSE)
    /\ Carries(NoAudio)

NextVad ==
    \/ VadUpdate
    \/ VadAppend
    \/ VadFinish

SpecVad == Init /\ [][NextVad]_vars

(***************************************************************************)
(* Vocabulary of the properties: positions of events in a sequence of      *)
(* outbound events, and the step that handles one inbound message.         *)
(***************************************************************************)
T_STARTED   == "input_audio_buffer.speech_started"
T_STOPPED   == "input_audio_buffer.speech_stopped"
T_COMMITTED == "input_audio_buffer.committed"
T_CREATED   == "conversation.item.created"
T_TEXT      == "conversation.item.input_audio_transcription.text"
T_COMPLETED == "conversation.item.input_audio_transcription.completed"
T_FINISHED  == "session.finished"

\* the positions of the events of type t in the event sequence o
Positions(o, t) == { i \in 1..Len(o) : o[i].type = t }

\* the positions of the events of type t that carry item id
PositionsOf(o, t, id) == { i \in Positions(o, t) : o[i].item_id = id }

\* the item ids carried by the events of type t
ItemsOf(o, t) == { o[i].item_id : i \in Positions(o, t) }

\* this step is the handling of one inbound message of the given type
Handles(type) == msgs' = msgs + 1 /\ last_msg' = type

\* the session state that a rejected message must leave alone
SessionState ==
    << vad_enabled, vad_threshold, vad_silence_ms, sample_rate, audio_buffer,
       total_samples, vad_manager, asr_session, current_item_id,
       previous_item_id, speech_active, last_commit_time, segment_start_time,
       finished, next_item, phase, audio_format >>

(***************************************************************************)
(* C1  Finish closure.                                                     *)
(***************************************************************************)
\* C1: whatever the state in which session.finish arrives, the step that
\* handles it leaves exactly one session.finished event on the session, none
\* having been there before, and no step ever makes it more than one.
FinishClosure ==
    [][ /\ Handles("session.finish") =>
            /\ Positions(out, T_FINISHED) = {}
            /\ Cardinality(Positions(out', T_FINISHED)) = 1
        /\ Cardinality(Positions(out', T_FINISHED)) <= 1 ]_vars

\* C1 witness: session.finish was handled after an error event and while the
\* VAD was speaking (a forced speech_stopped precedes session.finished).
FinishClosureWitness ==
    /\ last_msg = "session.finish"
    /\ Positions(out, T_FINISHED) # {}
    /\ Positions(out, "error") # {}
    /\ Positions(out, T_STOPPED) # {}

(***************************************************************************)
(* C2  Nothing follows session.finished.                                   *)
(***************************************************************************)
\* C2: a session.finished event is the last event of the session: no outbound
\* event of any type has a position after it.
FinishedIsLast ==
    \A i \in Positions(out, T_FINISHED) : i = Len(out)

\* C2 witness: session.finished was emitted after a commit sequence and the
\* receive loop has ended.
FinishedIsLastWitness ==
    /\ Positions(out, T_FINISHED) # {}
    /\ Positions(out, T_COMPLETED) # {}
    /\ phase = "closed"

(***************************************************************************)
(* C3  The chain of previous_item_id.                                      *)
(***************************************************************************)
\* C3: the previous_item_id of every committed event is the item_id of the
\* committed event before it, and 0 (the empty string) for the first one.
CommittedChain ==
    \A i \in Positions(out, T_COMMITTED) :
        LET earlier == { j \in Positions(out, T_COMMITTED) : j < i } IN
        out[i].previous_item_id =
            IF earlier = {} THEN 0
            ELSE out[CHOOSE j \in earlier : \A k \in earlier : k <= j].item_id

\* C3 witness: two committed events, the second chained to the first, one of
\* them VAD-triggered (its item has a speech_stopped) and one for an item that
\* has no speech_stopped.
CommittedChainWitness ==
    /\ Cardinality(Positions(out, T_COMMITTED)) >= 2
    /\ \E i \in Positions(out, T_COMMITTED) : out[i].previous_item_id # 0
    /\ \E i \in Positions(out, T_COMMITTED) :
          PositionsOf(out, T_STOPPED, out[i].item_id) # {}
    /\ \E i \in Positions(out, T_COMMITTED) :
          PositionsOf(out, T_STOPPED, out[i].item_id) = {}

(***************************************************************************)
(* C4  Completed events match committed events.                            *)
(***************************************************************************)
\* C4: between handlers, the item ids of the completed events emitted so far
\* are the item ids of the committed events emitted so far.
CompletedMatchesCommitted ==
    ItemsOf(out, T_COMPLETED) = ItemsOf(out, T_COMMITTED)

\* C4 witness: two items were committed, one with an empty and one with a
\* non-empty final transcript.
CompletedMatchesCommittedWitness ==
    /\ Cardinality(ItemsOf(out, T_COMMITTED)) >= 2
    /\ \E i \in Positions(out, T_COMPLETED) : out[i].transcript = <<>>
    /\ \E i \in Positions(out, T_COMPLETED) : out[i].transcript # <<>>

(***************************************************************************)
(* C5  Order of the events of one item.                                    *)
(***************************************************************************)
\* the stage of an event type in the life of an item
Stage(t) ==
    CASE t = T_STARTED   -> 1
      [] t = T_TEXT      -> 2
      [] t = T_STOPPED   -> 3
      [] t = T_COMMITTED -> 4
      [] t = T_CREATED   -> 5
      [] t = T_COMPLETED -> 6
      [] OTHER           -> 0

\* C5: the events of one item appear in the order speech_started, interim
\* text, speech_stopped, committed, conversation.item.created, completed, and a
\* conversation.item.created of the item lies between its committed and its
\* completed event.  (The conversation.item.created that opens an item in
\* manual mode is not held against the order.)
ItemEventOrder ==
    /\ \A i, j \in 1..Len(out) :
          ( /\ i < j
            /\ out[i].item_id # 0
            /\ out[i].item_id = out[j].item_id
            /\ out[i].type # T_CREATED
            /\ out[j].type # T_CREATED )
          => Stage(out[i].type) <= Stage(out[j].type)
    /\ \A k \in Positions(out, T_COMPLETED) :
          \E m \in PositionsOf(out, T_COMMITTED, out[k].item_id),
             c \in PositionsOf(out, T_CREATED, out[k].item_id) :
             m < c /\ c < k

(***************************************************************************)
(* C6  speech_stopped has its speech_started.                              *)
(***************************************************************************)
\* C6: every speech_stopped event carries an item_id for which a
\* speech_started event was emitted earlier in the session.
StoppedHasStarted ==
    \A j \in Positions(out, T_STOPPED) :
        \E i \in PositionsOf(out, T_STARTED, out[j].item_id) : i < j

(***************************************************************************)
(* C7  speech_started is closed by speech_stopped before session.finished. *)
(***************************************************************************)
\* C7: once session.finished is emitted, every speech_started event of the
\* session is followed by a speech_stopped event.
StartedIsStoppedAtFinish ==
    Positions(out, T_FINISHED) # {} =>
        \A i \in Positions(out, T_STARTED) :
            \E j \in Positions(out, T_STOPPED) : i < j

(***************************************************************************)
(* C8  At most one open item.                                              *)
(***************************************************************************)
\* C8: while an item is open no other item is opened: the current item is
\* replaced by another item only in a step that commits it.
OneOpenItem ==
    [][ ( /\ current_item_id # 0
          /\ current_item_id' # 0
          /\ current_item_id' # current_item_id )
        => PositionsOf(out', T_COMMITTED, current_item_id) # {} ]_vars

(***************************************************************************)
(* C9  session.finish commits the open item.                               *)
(***************************************************************************)
\* C9: when session.finish is handled while an item is open, the item's
\* committed, conversation.item.created and completed events are emitted, in
\* this order, before session.finished, and no item is open afterwards.
FinishCommitsOpenItem ==
    [][ ( Handles("session.finish") /\ current_item_id # 0 )
        => /\ current_item_id' = 0
           /\ \E m \in PositionsOf(out', T_COMMITTED, current_item_id),
                 c \in PositionsOf(out', T_CREATED, current_item_id),
                 k \in PositionsOf(out', T_COMPLETED, current_item_id),
                 f \in Positions(out', T_FINISHED) :
                 m < c /\ c < k /\ k < f ]_vars

(***************************************************************************)
(* C10  input_audio_buffer.commit is rejected in VAD mode.                 *)
(***************************************************************************)
\* C10: while vad_enabled holds (the default configuration included), the step
\* that handles input_audio_buffer.commit emits exactly one event, the error
\* commit_not_allowed, changes nothing of the session state and leaves the
\* receive loop running.
CommitRejectedInVadMode ==
    [][ ( Handles("input_audio_buffer.commit") /\ vad_enabled )
        => /\ out' = Append(out, create_error_event("invalid_request_error",
                                                     "commit_not_allowed"))
           /\ UNCHANGED SessionState
           /\ phase' = "open" ]_vars

\* C10 witness: a commit was rejected while an item was open in VAD mode, and
\* the session went on to commit that item on a later event.
CommitRejectedInVadModeWitness ==
    \E e \in Positions(out, "error") :
        /\ out[e].code = "commit_not_allowed"
        /\ \E i \in Positions(out, T_STARTED) : i < e
        /\ \E m \in Positions(out, T_COMMITTED) : e < m

SessionCreatedDefault ==
    create_session_created_event(
        [ null |-> FALSE, threshold |-> DEFAULT_THRESHOLD,
          silence_duration_ms |-> DEFAULT_VAD_SILENCE_DURATION_MS ])

\* C12: when the client has sent session.update with turn_detection null, one
\* append of a non-empty frame for which the backend returned the empty text,
\* input_audio_buffer.commit and session.finish, the events it has received are
\* exactly session.created, session.updated, input_audio_buffer.committed,
\* conversation.item.created, the completed event with the empty transcript and
\* session.finished, with no other event in between.
ManualModeSequence ==
    manual_script = 4
    => out = << SessionCreatedDefault,
                create_session_updated_event(NoTurnDetection),
                create_input_audio_buffer_committed_event(0, 1),
                create_conversation_item_created_event(1, 0),
                create_transcription_completed_event(1, "zh", <<>>),
                create_session_finished_event >>

\* C12 as amended: the append opens the item and announces it, so one more
\* conversation.item.created, for the same item, stands between
\* session.updated and input_audio_buffer.committed.
ManualModeSequenceWithOpening ==
    manual_script = 4
    => out = << SessionCreatedDefault,
                create_session_updated_event(NoTurnDetection),
                create_conversation_item_created_event(1, 0),
                create_input_audio_buffer_committed_event(0, 1),
                create_conversation_item_created_event(1, 0),
                create_transcription_completed_event(1, "zh", <<>>),
                create_session_finished_event >>

\* C12 witness: the four messages of the script were handled, the last one
\* being session.finish, and the session ended.
ManualModeSequenceWitness ==
    /\ manual_script = 4 /\ msgs = 4 /\ last_msg = "session.finish"
    /\ finished /\ total_samples > 0

(***************************************************************************)
(* C13  Commit idempotence in manual mode.                                 *)
(***************************************************************************)
\* C13: in manual mode, the step that handles input_audio_buffer.commit when no
\* audio was appended since the last commit (or since the session started)
\* sends no error: it emits committed, conversation.item.created and the
\* completed event with the empty transcript for one item, a fresh one when
\* none is open, chained to the previous item, and that item becomes the
\* previous item; so N such commits in a row yield N chained items.
EmptyCommitOpensAndCommits ==
    [][ ( Handles("input_audio_buffer.commit") /\ ~vad_enabled /\ audio_buffer = 0 )
        => LET id == IF current_item_id # 0 THEN current_item_id ELSE next_item
           IN /\ out' = out \o
                     << create_input_audio_buffer_committed_event(previous_item_id, id),
                        create_conversation_item_created_event(id, previous_item_id),
                        create_transcription_completed_event(id, "zh", <<>>) >>
              /\ previous_item_id' = id
              /\ current_item_id' = 0
              /\ id \notin ItemsOf(out, T_COMMITTED)
              /\ phase' = "open" ]_vars

\* C13 witness: two commits in a row with no audio at all in the session gave
\* two items, the second chained to the first.
EmptyCommitOpensAndCommitsWitness ==
    /\ ~vad_enabled /\ total_samples = 0 /\ last_msg = "input_audio_buffer.commit"
    /\ \E i, j \in Positions(out, T_COMMITTED) :
           /\ i < j
           /\ out[i].previous_item_id = 0
           /\ out[j].previous_item_id = out[i].item_id
           /\ out[j].item_id # out[i].item_id
    /\ Positions(out, "error") = {}

(***************************************************************************)
(* C14  Default configuration on an append before any session.update.      *)
(***************************************************************************)
\* C14: the step that handles an append of a non-empty frame before any
\* session.update (no VAD manager built yet) applies the default
\* configuration: afterwards the VAD engine exists with the default threshold
\* and silence duration, the ASR session exists, and the frame went through
\* both, as after a session.update carrying the defaults (the ASR session
\* holds a backend state unless its initialisation ended the session).
LazyDefaultsOnFirstAppend ==
    [][ ( /\ Handles("input_audio_buffer.append")
          /\ vad_manager.kind = "none"
          /\ total_samples' > total_samples )
        => /\ vad_manager'.kind = "silero"
           /\ vad_manager'.threshold = DEFAULT_THRESHOLD
           /\ vad_manager'.silence_samples =
                  (DEFAULT_VAD_SILENCE_DURATION_MS * sample_rate) \div 1000
           /\ asr_session'.exists
           /\ phase' = "open" => asr_session'.live ]_vars

(***************************************************************************)
(* C15  Every appended sample is fed once.                                 *)
(***************************************************************************)
\* C15: after every append handler, the number of samples handed to the
\* adapter's feed equals the cumulative sample counter, whatever the sequence
\* of messages was (appends before the first session.update included).
EverySampleFed ==
    (last_msg = "input_audio_buffer.append") => fed_samples = total_samples

(***************************************************************************)
(* C16  The pending-samples buffer is bounded.                             *)
(***************************************************************************)
\* C16: the pending-samples buffer does not grow with the length of the
\* stream: in VAD mode it is drained as the VAD consumes windows, so while the
\* VAD runs and no item is open (no speech detected) it holds less than one
\* window of samples, however long the stream is.
PendingBufferDrained ==
    ( vad_enabled /\ vad_manager.kind = "silero" /\ current_item_id = 0 )
    => audio_buffer < vad_manager.window_size

(***************************************************************************)
(* C17  Protocol and audio-decode errors do not end the session.           *)
(***************************************************************************)
\* the audio field cannot be decoded in the format: its base64 is broken, or
\* the decoder of the format does not produce an array from its bytes
DecodeFails(audio, format) ==
    /\ ~audio.empty
    /\ \/ DecodeBase64Audio(audio).none
       \/ BytesToNumpy(audio, format).none
       \/ BytesToNumpy(audio, format).raised

\* C17: the step that handles a message of an unknown type, a commit in VAD
\* mode, or an append whose audio field fails to decode (as base64, or in the
\* declared format pcm16, pcm32 or opus) emits exactly one event, an error of
\* type invalid_request_error, and leaves the receive loop running.
ErrorsKeepSessionOpen ==
    [][ ( \/ Handles("unknown")
          \/ Handles("input_audio_buffer.commit") /\ vad_enabled
          \/ Handles("input_audio_buffer.append")
                /\ DecodeFails(last_audio', audio_format) )
        => /\ Len(out') = Len(out) + 1
           /\ out'[Len(out')].type = "error"
           /\ out'[Len(out')].error_type = "invalid_request_error"
           /\ phase' = "open" /\ ~finished' ]_vars

(***************************************************************************)
(* C18  An undecodable Opus frame.                                         *)
(***************************************************************************)
\* C18: while the declared format is opus, the step that handles an append
\* whose audio field is valid base64 of bytes that are no decodable Opus frame
\* emits exactly one event, the error with the code invalid_audio, and changes
\* nothing of the session state.
CorruptOpusIsInvalidAudio ==
    [][ ( /\ Handles("input_audio_buffer.append")
          /\ Lower(audio_format) \in {"opus", "opuslib"}
          /\ ~last_audio'.empty /\ last_audio'.b64 /\ last_audio'.opus = Absent )
        => /\ out' = Append(out, create_error_event("invalid_request_error",
                                                     "invalid_audio"))
           /\ UNCHANGED SessionState ]_vars

(***************************************************************************)
(* C19  The transcript of a commit whose finalize failed.                  *)
(***************************************************************************)
\* C19: when the finalize call of the backend fails while a message is handled
\* (a commit, a speech stop, an auto-commit or the commit of session.finish),
\* every completed event emitted for it carries the empty transcript, whatever
\* interim text the ASR session held.  (The language of that event is the
\* constant "zh" on this path.)
FailedFinalizeGivesEmptyTranscript ==
    [][ ( msgs' = msgs + 1 /\ "finalize" \in backend_failed' )
        => \A i \in (Len(out) + 1)..Len(out') :
              out'[i].type = T_COMPLETED => out'[i].transcript = <<>> ]_vars

(***************************************************************************)
(* C20  A failed feed is reported to the client.                           *)
(***************************************************************************)
\* C20: when the feed call of the backend fails while an append is handled,
\* the handler emits an error event internal_error / server_error for it, and
\* any text event of that step shows only text the ASR session held before
\* the call (none is derived from the failed call).
FailedFeedIsReported ==
    [][ ( Handles("input_audio_buffer.append") /\ "feed" \in backend_failed' )
        => /\ \E i \in (Len(out) + 1)..Len(out') :
                 /\ out'[i].type = "error"
                 /\ out'[i].error_type = "internal_error"
                 /\ out'[i].code = "server_error"
           /\ \A i \in (Len(out) + 1)..Len(out') :
                 out'[i].type = T_TEXT
                 => out'[i].text \o out'[i].stash = asr_session.current_text ]_vars

(***************************************************************************)
(* C21  A failed feed or finalize does not block the session.              *)
(***************************************************************************)
\* the feed or the finalize call failed in this set of failed backend calls,
\* and initialize did not (an exception of initialize ends the session)
FeedOrFinalizeFailed(failed) ==
    failed \cap {"feed", "finalize"} # {} /\ "init" \notin failed

\* C21: the step that handles a message during which the feed or the finalize
\* call of the backend failed leaves the lock of the ASR session free and no
\* handler waiting for it: the receive loop goes on (or, for session.finish,
\* ends with session.finished as the last event), and a session.finish that
\* is the next message after such a failure still produces session.finished.
FailedCallReleasesLock ==
    [][ /\ ( msgs' = msgs + 1 /\ FeedOrFinalizeFailed(backend_failed') )
           => /\ ~asr_session'.locked
              /\ phase' # "hung"
              /\ IF last_msg' = "session.finish"
                 THEN finished' /\ out'[Len(out')].type = T_FINISHED
                 ELSE phase' = "open" /\ ~finished'
        /\ ( Handles("session.finish") /\ FeedOrFinalizeFailed(backend_failed) )
           => /\ finished'
              /\ out'[Len(out')].type = T_FINISHED
              /\ phase' = "closed" ]_vars

\* C21 witness: in one append the feed failed and then the auto-commit of the
\* open item took the lock again for a finalize that failed too; the session
\* is still receiving, with the next item open.
FailedCallReleasesLockWitness ==
    /\ last_msg = "input_audio_buffer.append"
    /\ backend_failed = {"feed", "finalize"}
    /\ phase = "open" /\ ~finished
    /\ current_item_id # 0 /\ previous_item_id # 0

(***************************************************************************)
(* C22  The auto-commit is the commit procedure plus a new item.           *)
(***************************************************************************)
\* C22: the step that handles an append of a non-empty frame while the open
\* item is at least AUTO_COMMIT_INTERVAL_SEC past its segment start (and the
\* VAD does not end the item in that append) emits committed,
\* conversation.item.created and completed for that item, in this order,
\* resets the ASR session and the VAD engine, clears the pending buffer, and
\* then opens a fresh item whose previous item is the committed one, with a
\* conversation.item.created for it as the last event.
AutoCommitIsCommitThenOpen ==
    [][ ( /\ Handles("input_audio_buffer.append")
          /\ current_item_id # 0
          /\ now - segment_start_time >= AUTO_COMMIT_INTERVAL_SEC
          /\ total_samples' > total_samples
          /\ phase' = "open"
          /\ \A i \in (Len(out) + 1)..Len(out') : out'[i].type # T_STOPPED )
        => /\ \E m, c, k \in (Len(out) + 1)..Len(out') :
                 /\ m < c /\ c < k
                 /\ out'[m] = create_input_audio_buffer_committed_event(
                                  previous_item_id, current_item_id)
                 /\ out'[c] = create_conversation_item_created_event(
                                  current_item_id, previous_item_id)
                 /\ out'[k].type = T_COMPLETED
                 /\ out'[k].item_id = current_item_id
           /\ ~asr_session'.live /\ asr_session'.current_text = <<>>
           /\ vad_manager' = VadManagerReset(vad_manager')
           /\ audio_buffer' = 0
           /\ current_item_id' = next_item
           /\ previous_item_id' = current_item_id
           /\ out'[Len(out')] = create_conversation_item_created_event(
                                    current_item_id', current_item_id) ]_vars

(***************************************************************************)
(* C23  Auto-commits of a continuous stream.                               *)
(***************************************************************************)
\* C23: in manual mode, once a continuous stream has delivered D seconds of
\* audio, D at least twice AUTO_COMMIT_INTERVAL_SEC (the 5 s of the scenario
\* are), the completed events emitted before session.finish are
\* floor(D / AUTO_COMMIT_INTERVAL_SEC) in number (two for 5 s at an interval
\* of 2 s), and session.finish adds at most one.
StreamAutoCommitCount ==
    StreamedSec >= 2 * AUTO_COMMIT_INTERVAL_SEC
    => LET expected == StreamedSec \div AUTO_COMMIT_INTERVAL_SEC
           completed == Cardinality(Positions(out, T_COMPLETED))
       IN IF finished THEN completed \in { expected, expected + 1 }
          ELSE completed = expected

(***************************************************************************)
(* C24  session.update is acknowledged and decides the mode.               *)
(***************************************************************************)
\* the value a key of turn_detection stands for
ValueOr(value, default) == IF value = Absent THEN default ELSE value

\* C24: the step that handles a session.update emits exactly one event, a
\* session.updated; afterwards the session is in manual mode if and only if
\* the supplied turn_detection is null, and otherwise in VAD mode with a VAD
\* engine built from the supplied threshold and silence_duration_ms, 0.5 and
\* 400 standing for the keys it omits whatever an earlier update had set; the
\* session.updated event reports turn_detection null exactly in manual mode
\* and the values in force otherwise.
UpdateDecidesMode ==
    [][ Handles("session.update")
        => LET td == last_turn_detection'
               threshold == ValueOr(td.threshold, DEFAULT_THRESHOLD)
               silence_ms == ValueOr(td.silence_duration_ms,
                                     DEFAULT_VAD_SILENCE_DURATION_MS)
               updated == out'[Len(out')]
           IN /\ Len(out') = Len(out) + 1
              /\ updated.type = "session.updated"
              /\ vad_enabled' = ~td.null
              /\ updated.turn_detection.null = ~vad_enabled'
              /\ td.null => vad_manager'.kind = "disabled"
              /\ ~td.null =>
                    /\ vad_threshold' = threshold
                    /\ vad_silence_ms' = silence_ms
                    /\ vad_manager' = SileroVAD(threshold, silence_ms, sample_rate')
                    /\ updated.turn_detection =
                           [ null |-> FALSE, threshold |-> threshold,
                             silence_duration_ms |-> silence_ms ]
              /\ phase' = "open" ]_vars

\* C24 witness: an update that set a threshold of 0.6 was followed by an update
\* that names only a silence duration: the threshold in force is 0.5 again.
UpdateDecidesModeWitness ==
    /\ last_msg = "session.update"
    /\ last_turn_detection.threshold = Absent /\ ~last_turn_detection.null
    /\ vad_threshold = DEFAULT_THRESHOLD
    /\ \E i \in Positions(out, "session.updated") :
           /\ i < Len(out)
           /\ ~out[i].turn_detection.null
           /\ out[i].turn_detection.threshold = 60

(***************************************************************************)
(* C25  session.finished after a fatal internal error.                     *)
(***************************************************************************)
\* C25: when the receive loop ends on an exception raised while a message is
\* read or handled (a frame that is no JSON, a failed initialisation of the
\* backend), the connection being open, the last event the server sends is
\* session.finished.
FatalErrorEndsWithFinished ==
    [][ ( msgs' = msgs + 1 /\ phase' = "closed" /\ ~finished' )
        => out'[Len(out')].type = T_FINISHED ]_vars

(***************************************************************************)
(* C26  audio_end_ms does not decrease.                                    *)
(***************************************************************************)
\* C26: the audio_end_ms values of the speech_stopped events of a session, in
\* the order of their emission, never decrease, whatever appends, speech
\* stops, forced stops, commits and session.update events (with the same or
\* another sample rate) lie between them.
AudioEndMsMonotonic ==
    \A i, j \in Positions(out, T_STOPPED) :
        i < j => out[i].audio_ms <= out[j].audio_ms

(***************************************************************************)
(* C27  An append without samples is silent.                               *)
(***************************************************************************)
\* C27: the step that handles an append that delivers no sample (its audio
\* field is empty, or it is decoded to an array of length zero) emits no
\* event, in VAD mode and in manual mode, with or without an open item.
ZeroSampleAppendIsSilent ==
    [][ ( /\ Handles("input_audio_buffer.append")
          /\ last_audio'.empty \/ Decodes(last_audio', audio_format)
          /\ SamplesOf(last_audio', audio_format) = 0 )
        => out' = out ]_vars

(***************************************************************************)
(* C28  The interim split.                                                 *)
(***************************************************************************)
\* the smaller of two numbers
Min(a, b) == IF a < b THEN a ELSE b

\* C28: the step that handles an append for which the feed returned the text
\* t emits no text event when t is empty and otherwise exactly one, whose
\* confirmed text is empty and whose stash is t when t has at most 20
\* characters, and whose confirmed text is the first k characters of t and
\* whose stash is the rest when t is longer, k = len(t) - min(10, len(t) / 3
\* rounded down); confirmed text followed by stash is t in every case.
InterimSplit ==
    [][ ( Handles("input_audio_buffer.append") /\ asr_session'.live )
        => LET t == asr_session'.current_text
               k == Len(t) - Min(10, Len(t) \div 3)
               texts == { i \in (Len(out) + 1)..Len(out') : out'[i].type = T_TEXT }
           IN IF t = <<>> THEN texts = {}
              ELSE /\ Cardinality(texts) = 1
                   /\ \A i \in texts :
                         /\ out'[i].text \o out'[i].stash = t
                         /\ Len(t) <= 20 => out'[i].text = <<>> /\ out'[i].stash = t
                         /\ Len(t) > 20 =>
                               /\ out'[i].text = SubSeq(t, 1, k)
                               /\ out'[i].stash = SubSeq(t, k + 1, Len(t)) ]_vars

\* C28 witness: text events for a text of 20 characters (all stash), for a
\* text of 29 (9 characters of stash) and for a text of 33 (10 of stash).
InterimSplitWitness ==
    /\ \E i \in Positions(out, T_TEXT) : out[i].text = <<>> /\ Len(out[i].stash) = 20
    /\ \E i \in Positions(out, T_TEXT) :
           \/ Len(out[i].text) = 20 /\ Len(out[i].stash) = 9
           \/ Len(out[i].text) = 23 /\ Len(out[i].stash) = 10

(***************************************************************************)
(* C29  The confirmed text of an utterance does not shrink.                *)
(***************************************************************************)
\* C29: of two interim text events of the same item, the later one carries a
\* confirmed text at least as long as that of the earlier one, whatever texts
\* the backend returned from the feeds of the utterance.
ConfirmedNeverShrinks ==
    \A i, j \in Positions(out, T_TEXT) :
        ( i < j /\ out[i].item_id = out[j].item_id )
        => Len(out[i].text) <= Len(out[j].text)

(***************************************************************************)
(* C30  The outbound language mapping inverts the inbound one.             *)
(***************************************************************************)
\* C30: for every ISO code c of the inbound table: while the language of the
\* session is the full name the inbound path maps c to, every interim text
\* event, and every completed event of a transcription in progress, for
\* which the backend reported that name with a text carries the language c
\* again (so "zh" stands only for Chinese and for names that are no
\* canonical full name).
LanguageRoundTrip ==
    [][ \A c \in DOMAIN LANGUAGE_CODE_MAP :
          ( msgs' = msgs + 1 /\ language = LANGUAGE_CODE_MAP[c] )
          => \A i \in (Len(out) + 1)..Len(out') :
                ( \/ out'[i].type = T_TEXT
                  \/ /\ out'[i].type = T_COMPLETED
                     /\ asr_session.live /\ out'[i].transcript # <<>> )
                => out'[i].language = c ]_vars

(***************************************************************************)
(* C31  Window positions.                                                  *)
(***************************************************************************)
\* the engine v after the first i windows of a process call whose chunk starts
\* at chunk_start
EngineAfter(v, probs, i, chunk_start) ==
    ProcessLoop([v EXCEPT !.buffer = i * v.window_size], probs, 1, chunk_start,
                NoVadResult).vad

\* the step handles an append in VAD mode with a loaded engine
VadAppendStep ==
    /\ msgs' = msgs + 1
    /\ last_msg' = "input_audio_buffer.append"
    /\ vad_enabled /\ vad_manager.kind = "silero"

\* the position in the cumulative sample stream of the first sample of the
\* i-th window that the engine forms in this step: the leftover buffer holds
\* the last samples received before the chunk
WindowStart(i) ==
    total_samples - vad_manager.buffer + (i - 1) * vad_manager.window_size

\* C31: for every window that the engine evaluates as speech, the value
\* assigned to last_speech_sample is the position one past the window's last
\* sample in the cumulative sample stream, and the value assigned to
\* speech_start_sample at an onset is the position of the window's first
\* sample, whatever the sizes of the chunks.
WindowPositionsAreTrue ==
    [][ VadAppendStep
        => \A i \in 1..Len(last_probs') :
              LET before == EngineAfter(vad_manager, last_probs', i - 1,
                                        total_samples)
                  after  == EngineAfter(vad_manager, last_probs', i,
                                        total_samples)
              IN last_probs'[i] > vad_manager.threshold
                 => /\ after.last_speech_sample
                         = WindowStart(i) + vad_manager.window_size
                    /\ ~before.is_speaking
                         => after.speech_start_sample = WindowStart(i) ]_vars

(***************************************************************************)
(* C32  The silence counter and the speech stop.                           *)
(***************************************************************************)
\* ceil(a / b)
Ceil(a, b) == (a + b - 1) \div b

\* what _process_window makes of the i-th window of this step
WindowResult(i) ==
    ProcessWindow(EngineAfter(vad_manager, last_probs', i - 1, total_samples),
                  last_probs'[i],
                  total_samples + (i - 1) * vad_manager.window_size)

\* the i-th window of this step is a speech window
IsSpeech(i) == last_probs'[i] > vad_manager.threshold

\* the end of the last speech window before the i-th window of this step: one
\* past the last sample of that window when it is a window of this step, and
\* the engine's record when the last speech window came with an earlier chunk
LastSpeechEnd(i) ==
    IF \E j \in 1..(i - 1) : IsSpeech(j)
    THEN LET j == CHOOSE j \in 1..(i - 1) :
                     IsSpeech(j) /\ \A k \in (j + 1)..(i - 1) : ~IsSpeech(k)
         IN WindowStart(j) + vad_manager.window_size
    ELSE vad_manager.last_speech_sample

\* C32: for every window the engine evaluates: a speech window sets
\* silence_counter to 0, stops nothing, and starts the speech exactly when the
\* engine was not speaking; a non-speech window met while speaking adds W to
\* silence_counter and stops the speech exactly when the counter has reached
\* ceil(silence_duration_ms * sample_rate / 1000), with audio_end_ms the end
\* of the last speech window in milliseconds; a non-speech window met while not
\* speaking changes nothing and produces nothing.
SilenceCounterStopsSpeech ==
    [][ VadAppendStep
        => \A i \in 1..Len(last_probs') :
              LET W      == vad_manager.window_size
                  before == EngineAfter(vad_manager, last_probs', i - 1,
                                        total_samples)
                  w      == WindowResult(i)
              IN IF IsSpeech(i)
                 THEN /\ w.vad.silence_counter = 0
                      /\ w.vad.is_speaking
                      /\ ~w.result.speech_stopped
                      /\ w.result.speech_started <=> ~before.is_speaking
                 ELSE IF before.is_speaking
                 THEN /\ w.vad.silence_counter = before.silence_counter + W
                      /\ ~w.result.speech_started
                      /\ w.result.speech_stopped
                           <=> w.vad.silence_counter
                                 >= Ceil(vad_silence_ms * sample_rate, 1000)
                      /\ w.vad.is_speaking <=> ~w.result.speech_stopped
                      /\ w.result.speech_stopped
                           => w.result.audio_end_ms
                                = SampleToMs(LastSpeechEnd(i), sample_rate)
                 ELSE /\ w.vad = before
                      /\ w.result = NoVadResult ]_vars

CommitDone(s, c) ==
    /\ ~c.hung
    /\ \E i \in (Len(s.out) + 1)..Len(c.out) : c.out[i].type = T_COMMITTED

\* the item that this commit procedure committed
CommittedItem(s, c) ==
    c.out[CHOOSE i \in (Len(s.out) + 1)..Len(c.out) :
              c.out[i].type = T_COMMITTED].item_id

\* the state that _commit_audio leaves after committing the item id
CleanAfterCommit(c, id) ==
    /\ c.previous_item_id = id
    /\ c.current_item_id = 0
    /\ c.asr_session.exists
         => /\ ~c.asr_session.live
            /\ c.asr_session.state_text = <<>>
            /\ c.asr_session.current_text = <<>>
    /\ c.vad_manager.kind = "silero"
         => /\ ~c.vad_manager.is_speaking
            /\ c.vad_manager.silence_counter = 0
            /\ c.vad_manager.speech_start_sample = 0
            /\ c.vad_manager.last_speech_sample = 0
            /\ c.vad_manager.buffer = 0
    /\ c.audio_buffer = 0

\* the handler object when _process_vad returns, for a chunk of n samples
AfterProcessVad(n, probs, fin) ==
    ProcessVad([Self EXCEPT !.audio_buffer = @ + n, !.total_samples = @ + n],
               n, probs, fin, now)

\* C34: in every state in which the session waits for a message, whatever the
\* backend answers: when the commit procedure that a manual commit runs, or
\* that a speech stop of the VAD runs (detected in an append or forced by
\* session.finish), has completed, previous_item_id is the committed item, no
\* item is open, the ASR session holds no utterance state and no interim
\* text, the VAD engine is not speaking with its counters and its leftover
\* buffer cleared, and the pending-samples buffer is empty.
CommitLeavesCleanState ==
    phase = "open" /\ ~finished
    => /\ ~vad_enabled
            => \A fin \in CallOutcomes :
                  \E c \in { HandleAudioCommit(Self, fin, now) } :
                     /\ CommitDone(Self, c)
                     /\ CleanAfterCommit(c, CommittedItem(Self, c))
       /\ vad_enabled /\ vad_manager.kind = "silero"
            => \A n \in ChunkLens \ {0}, fin \in CallOutcomes :
                  \A probs \in ProbSeqs(WindowsFormed(vad_manager, n)) :
                     \E c \in { AfterProcessVad(n, probs, fin) } :
                        CommitDone(Self, c)
                        => CleanAfterCommit(c, CommittedItem(Self, c))
       /\ vad_manager.kind # "none" /\ speech_active /\ current_item_id # 0
            => \A fin \in CallOutcomes :
                  \E c \in { HandleSessionFinish(Self, fin, now) } :
                     CommitDone(Self, c)
                     => CleanAfterCommit(c, current_item_id)

\* the VAD has detected the end of the speech in an append and the commit
\* procedure has run: the item is committed and the engine is reset
CommitLeavesCleanStateWitness ==
    /\ vad_enabled /\ vad_manager.kind = "silero"
    /\ last_msg = "input_audio_buffer.append"
    /\ Len(out) >= 4
    /\ out[Len(out) - 3].type = "input_audio_buffer.speech_stopped"
    /\ out[Len(out) - 2].type = T_COMMITTED
    /\ previous_item_id = out[Len(out) - 2].item_id
    /\ current_item_id = 0
    /\ ~vad_manager.is_speaking

(***************************************************************************)
(* C35  session.update while an item is open.                              *)
(***************************************************************************)
\* C35: the step that handles a session.update while an item is open emits
\* the session.updated event and nothing else, so no committed, created or
\* completed event; it leaves the open item, previous_item_id, the cumulative
\* sample counter, the pending-samples buffer, the speech flag, the item
\* counter and the timing anchors as they are, and puts a new VAD engine and
\* a new ASR session, built from the new configuration, in the place of the
\* old ones.
UpdateKeepsOpenItem ==
    [][ ( /\ msgs' = msgs + 1
          /\ last_msg' = "session.update"
          /\ current_item_id # 0 )
        => /\ Len(out') = Len(out) + 1
           /\ SubSeq(out', 1, Len(out)) = out
           /\ out'[Len(out')].type = "session.updated"
           /\ current_item_id' = current_item_id
           /\ previous_item_id' = previous_item_id
           /\ total_samples' = total_samples
           /\ audio_buffer' = audio_buffer
           /\ speech_active' = speech_active
           /\ next_item' = next_item
           /\ segment_start_time' = segment_start_time
           /\ last_commit_time' = last_commit_time
           /\ finished' = finished /\ phase' = phase
           /\ vad_manager' = VADManager(vad_enabled', vad_threshold',
                                        vad_silence_ms', sample_rate')
           /\ asr_session' = ASRSession(language') ]_vars

\* a session.update has been handled while an item was open after an append
\* in manual mode, and the session is now in VAD mode
UpdateKeepsOpenItemWitness ==
    /\ last_msg = "session.update"
    /\ current_item_id # 0
    /\ total_samples > 0
    /\ vad_enabled

(***************************************************************************)
(* C36  Interim text events carry the open item.                           *)
(***************************************************************************)
\* the event opens the item id: speech_started in VAD mode,
\* conversation.item.created in manual mode
Opens(event, id) ==
    /\ event.item_id = id
    /\ event.type \in { "input_audio_buffer.speech_started",
                         "conversation.item.created" }

\* every text event of o carries an item that an earlier event of o opened and
\* that no earlier event of o committed
TextItemsOpen(o) ==
    \A i \in Positions(o, T_TEXT) :
       /\ o[i].item_id # 0
       /\ \E j \in 1..(i - 1) : Opens(o[j], o[i].item_id)
       /\ \A k \in 1..(i - 1) :
             ~(o[k].type = T_COMMITTED /\ o[k].item_id = o[i].item_id)

\* C36: every text event carries the id of an item that was opened before and
\* not committed before; the text event that a step emits carries the item
\* that is open when the step ends or, when an auto-commit follows the event
\* in the same step, the item that this auto-commit commits; an append in
\* which the VAD stops the speech emits no text event after the commit.
TextCarriesOpenItem ==
    [][ /\ TextItemsOpen(out')
        /\ \A i \in (Len(out) + 1)..Len(out') :
              out'[i].type = T_TEXT
              => IF \E k \in (i + 1)..Len(out') : out'[k].type = T_COMMITTED
                 THEN /\ out'[i + 1].type = T_COMMITTED
                      /\ out'[i + 1].item_id = out'[i].item_id
                      /\ previous_item_id' = out'[i].item_id
                 ELSE current_item_id' = out'[i].item_id ]_vars

\* an append has emitted a text event for the open item and the auto-commit
\* of the same append has committed that item
TextCarriesOpenItemWitness ==
    /\ last_msg = "input_audio_buffer.append"
    /\ \E i \in 1..(Len(out) - 1) :
          /\ out[i].type = T_TEXT
          /\ out[i + 1].type = T_COMMITTED
          /\ out[i + 1].item_id = out[i].item_id
          /\ previous_item_id = out[i].item_id

(***************************************************************************)
(* C37  speech_active and the open item.                                   *)
(***************************************************************************)
\* C37: between two handlers, a session in VAD mode has its speech_active
\* flag set if and only if an item is open.
SpeechActiveIffItemOpen ==
    vad_enabled => (speech_active <=> current_item_id # 0)

(***************************************************************************)
(* C38  The start of an item's speech does not follow its end.             *)
(***************************************************************************)
\* C38: for every item, the audio_start_ms of its speech_started event is at
\* most the audio_end_ms of its speech_stopped event.
StartNotAfterEnd ==
    \A i \in Positions(out, "input_audio_buffer.speech_started") :
       \A j \in PositionsOf(out, "input_audio_buffer.speech_stopped",
                             out[i].item_id) :
          out[i].audio_ms <= out[j].audio_ms

(***************************************************************************)
(* C39  Every onset is reported.                                           *)
(***************************************************************************)
\* the windows of this step at which the engine goes from not speaking to
\* speaking
Onsets ==
    { i \in 1..Len(last_probs') :
        /\ IsSpeech(i)
        /\ ~EngineAfter(vad_manager, last_probs', i - 1,
                        total_samples).is_speaking }

\* the speech_started events that this step sends
StartedEvents ==
    { k \in (Len(out) + 1)..Len(out') :
        out'[k].type = "input_audio_buffer.speech_started" }

\* C39: an append in VAD mode sends one speech_started event, each for an
\* item of its own, for every window at which the engine goes from not
\* speaking to speaking, and when the engine is speaking at the end of the
\* chunk an item is open and the engine is still speaking after the step.
EveryOnsetIsReported ==
    [][ VadAppendStep
        => /\ Cardinality(StartedEvents) = Cardinality(Onsets)
           /\ \A k, l \in StartedEvents :
                 out'[k].item_id = out'[l].item_id => k = l
           /\ EngineAfter(vad_manager, last_probs', Len(last_probs'),
                          total_samples).is_speaking
                => /\ current_item_id' # 0
                   /\ vad_manager'.is_speaking ]_vars

====
